---- MODULE Spec2Model ----
(***************************************************************************)
(* TODO-Notes: the notes/profile HTTP handlers of the server function      *)
(* (src/src/utils/api.tsx, lines 286-622) over the key-value store and the *)
(* Auth Provider.  One action per handler; a step is one whole request,    *)
(* followed by the step that ends the invocation.                          *)
(*                                                                         *)
(* JSON values are tagged records: [type |-> "object", props |-> r],       *)
(* [type |-> "string", str |-> s], [type |-> "null"].  A property whose    *)
(* value is undefined is not serialised by JSON, so it is absent from the  *)
(* DOMAIN of props.  The environment of specification Spec is reliable:    *)
(* request bodies are JSON objects and store calls do not throw.           *)
(*                                                                         *)
(* The client application (App, LoginRegister, NoteEditor,                 *)
(* AccountSettings) is a second state machine: one record per component    *)
(* holds its useState fields, a text the user types is the sequence of its *)
(* characters, and pending is the bag of the calls and timers an async     *)
(* handler awaits, each with the values its closure captured.  A component *)
(* that is not rendered is unmounted: its state is the initial one of its  *)
(* next mount, and the calls it still awaits no longer set its state.      *)
(***************************************************************************)
EXTENDS Bags, FiniteSets, Integers, Naturals, Sequences, TLC

VARIABLES kv, issued, req, resp, calls,       \* the server function
          identities,                         \* the Auth Provider
          inflight,                           \* requests handled concurrently
          app, loginRegister, noteEditor,     \* the client application
          accountSettings, mainPage, pending

vars == <<kv, issued, req, resp, calls, identities, inflight,
          app, loginRegister, noteEditor, accountSettings, mainPage, pending>>

\* the state of the client application
clientVars == <<app, loginRegister, noteEditor, accountSettings, mainPage, pending>>

-----------------------------------------------------------------------------
(* Bounds and input sets *)

MaxNotes == 2

IdNames == <<"n1", "n2", "n3", "n4", "n5">>

NoteIds == {IdNames[i] : i \in 1..MaxNotes}

Users == {"u1", "u2"}

Times == {"t1", "t2"}

-----------------------------------------------------------------------------
(* JSON values *)

JNull == [type |-> "null"]

JUndefined == [type |-> "undefined"]

JStr(s) == [type |-> "string", str |-> s]

JObj(r) == [type |-> "object", props |-> r]

\* JavaScript truthiness of a JSON value (!v is ~Truthy(v))
Truthy(v) ==
    \/ v.type = "object"
    \/ v.type = "string" /\ v.str # ""

Has(r, f) == f \in DOMAIN r

-----------------------------------------------------------------------------
(* Auth Provider: identities maps the email of each identity to its user  *)
(* id; a token resolves to the user of its session while the identity      *)
(* exists, every other token is unknown                                    *)

NoUser == ""

Sessions == [t \in {"tok1", "tok2"} |-> IF t = "tok1" THEN "u1" ELSE "u2"]

Range(f) == {f[x] : x \in DOMAIN f}

AuthGetUser(token) ==
    IF token \in DOMAIN Sessions /\ Sessions[token] \in Range(identities)
    THEN Sessions[token]
    ELSE NoUser

\* An Authorization header is the sequence of its space-separated words;
\* <<>> is a request without the header.
Headers == {<<>>, <<"Bearer", "bogus">>, <<"Bearer", "tok1">>, <<"Bearer", "tok2">>}

\* c.req.header('Authorization')?.split(' ')[1]; "" stands for undefined
AccessToken(h) == IF Len(h) >= 2 THEN h[2] ELSE ""

HeaderUser(h) == AuthGetUser(AccessToken(h))

-----------------------------------------------------------------------------
(* Key-value store: a function from the keys present to JSON values *)

\* the mutant keeps every note in one namespace
NoteKeyGlobal(u, n) == <<"user", "all", "note", n>>

\* `user:${user.id}:note:${noteId}`
NoteKey(u, n) == <<"user", u, "note", n>>

NotePrefix(u) == <<"user", u, "note">>

ProfileKey(u) == <<"user", u, "profile">>

kvGet(store, key) == IF key \in DOMAIN store THEN store[key] ELSE JUndefined

kvSet(store, key, val) ==
    [k \in DOMAIN store \cup {key} |-> IF k = key THEN val ELSE store[k]]

kvDel(store, key) == [k \in DOMAIN store \ {key} |-> store[k]]

StartsWith(key, prefix) ==
    /\ Len(key) >= Len(prefix)
    /\ SubSeq(key, 1, Len(prefix)) = prefix

\* the values (not the keys) of the entries whose key has the prefix
kvGetByPrefix(store, prefix) ==
    LET keys == {k \in DOMAIN store : StartsWith(k, prefix)}
        vals == {store[k] : k \in keys}
    IN  [v \in vals |-> Cardinality({k \in keys : store[k] = v})]

-----------------------------------------------------------------------------
(* Request bodies: JSON objects; a field the client omits is absent *)

\* bodies of POST /notes
Bodies ==
    { [title |-> "A", text |-> "x", tags |-> <<"t">>, deadline |-> JStr("d1")],
      [title |-> "B", deadline |-> JStr("d2"), id |-> "n1", userId |-> "u2",
       createdAt |-> "t9"],
      [text |-> "y", tags |-> <<"t", "t">>, deadline |-> JStr("d1")],
      [title |-> "", text |-> "x", deadline |-> JStr("d1")],
      [title |-> "A", text |-> "x"],
      [title |-> "B", tags |-> <<>>, deadline |-> JStr("")] }

\* bodies of PUT /notes/:id
UpdateBodies ==
    { [title |-> "A", text |-> "x", tags |-> <<"t">>, deadline |-> JStr("d1")],
      [title |-> "B", deadline |-> JStr("d2"), id |-> "n1", userId |-> "u2",
       createdAt |-> "t9"],
      [text |-> "y", tags |-> <<"t", "t">>, deadline |-> JStr("d1")],
      [title |-> "A", text |-> "x"] }

PasswordBodies ==
    { [other |-> "x"], [newPassword |-> ""], [newPassword |-> "abc"],
      [newPassword |-> "abcde"], [newPassword |-> "abcdef"] }

-----------------------------------------------------------------------------
(* Responses *)

Response(status, body) == [status |-> status, body |-> body]

ErrorResponse(status, msg) == Response(status, [error |-> msg])

\* the store and Auth Provider calls a request made, in order
NoCalls == [kv |-> <<>>, auth |-> <<>>]

GetUserCall(token) == [call |-> "getUser", token |-> token]

\* lines 392-403 (and the same in every protected handler): the answer of
\* the bearer-token check, for a header that does not pass it
AuthFailure(h) ==
    IF AccessToken(h) = ""
    THEN ErrorResponse(401, "Unauthorized: No token provided")
    ELSE ErrorResponse(401, "Unauthorized")

AuthFailureCalls(h) ==
    IF AccessToken(h) = ""
    THEN NoCalls
    ELSE [kv |-> <<>>, auth |-> <<GetUserCall(AccessToken(h))>>]

\* the mutant forgets the check of the provider's answer
AuthenticatedTokenOnly(h) == AccessToken(h) # ""

\* lines 394 and 400: !accessToken, error || !user
Authenticated(h) == AccessToken(h) # "" /\ HeaderUser(h) # NoUser

Request(op, h, id) == [op |-> op, auth |-> h, id |-> id]

AuthCalls(h) == <<GetUserCall(AccessToken(h))>>

-----------------------------------------------------------------------------
(* State after deployment: the identities u1 and u2 exist; the profile of  *)
(* u1 was written at signup, the profile write of u2 was lost.             *)

Profile(u) ==
    JObj([userId |-> u, username |-> u, email |-> u, createdAt |-> "t0"])

InitialStore == [k \in {ProfileKey("u1")} |-> Profile("u1")]

\* a store that also holds entries no handler wrote, in the namespace of u1
LegacyStore ==
    LET junk == [k \in {<<"user", "u1", "note", "x1">>, <<"user", "u1", "note", "x2">>,
                        <<"user", "u1", "note", "x3">>, <<"user", "u1", "note", "x4">>,
                        <<"user", "u1", "note", "x5">>, <<"user", "u1", "note", "x6">>} |->
                    CASE k[4] = "x1" -> JNull
                      [] k[4] = "x2" -> JStr("legacy")
                      [] k[4] = "x3" -> JObj([title |-> "A", userId |-> "u1"])
                      [] k[4] = "x4" -> JObj([id |-> "", title |-> "A", userId |-> "u1"])
                      [] k[4] = "x5" -> JObj([id |-> "x5", userId |-> "u1", text |-> "x"])
                      [] OTHER -> JObj([id |-> "x6", userId |-> "u1", title |-> ""])]
    IN  [k \in DOMAIN InitialStore \cup DOMAIN junk |->
            IF k \in DOMAIN junk THEN junk[k] ELSE InitialStore[k]]

\* the identities of u1 and u2
Registered == [e \in {"e1", "e2"} |-> IF e = "e1" THEN "u1" ELSE "u2"]

\* no request is handled concurrently with another
NoInflight == <<>>

\* no invocation is running
NoRequest == Request("none", <<>>, "")

NoResponse == Response(0, [message |-> "none"])

Idle == req = NoRequest

\* the client application right after it is loaded: App is mounted with
\* loading = true and its session check awaits getSession (lines 135-167)
AppMounted ==
    [currentScreen |-> "login", user |-> JNull, editingNote |-> JNull,
     loading |-> TRUE]

\* lines 14-20 of LoginRegister
LoginRegisterMounted ==
    [isLogin |-> TRUE, username |-> <<>>, email |-> <<>>, password |-> <<>>,
     confirmPassword |-> <<>>, error |-> "", loading |-> FALSE]

\* note.deadline.split('T')[0] of an ISO date-time (NoteEditor line 33)
DatePart(iso) == iso[1]

\* lines 20-35 of NoteEditor: the initial state and the effect that copies
\* the note to edit into it
NoteEditorMounted(note) ==
    IF note = JNull
    THEN [title |-> <<>>, text |-> <<>>, tags |-> <<>>, tagInput |-> <<>>,
          deadline |-> "", loading |-> FALSE, error |-> ""]
    ELSE [title |-> note.title, text |-> note.text, tags |-> note.tags,
          tagInput |-> <<>>, deadline |-> DatePart(note.deadline),
          loading |-> FALSE, error |-> ""]

\* lines 243-248 of AccountSettings (NoteEditor.tsx)
AccountSettingsMounted ==
    [isChangePasswordOpen |-> FALSE, newPassword |-> <<>>, confirmPassword |-> <<>>,
     passwordError |-> "", passwordSuccess |-> "", loading |-> FALSE]

\* a call or timer the handler of a component awaits; live: the component is
\* still mounted, so the continuation can set its state
Await(component, call) == call @@ [of |-> component, live |-> TRUE]

\* lines 20-24 of MainPage, with the values of its useMemo hooks (63-107)
MainPageMounted ==
    [notes |-> <<>>, loading |-> TRUE, error |-> "", searchQuery |-> <<>>,
     sortBy |-> "time", upcomingNote |-> JUndefined, filteredAndSortedNotes |-> <<>>]

ClientInit ==
    /\ app = AppMounted
    /\ mainPage = MainPageMounted
    /\ loginRegister = LoginRegisterMounted
    /\ noteEditor = NoteEditorMounted(JNull)
    /\ accountSettings = AccountSettingsMounted
    /\ pending = SetToBag({Await("App", [call |-> "getSession"])})

Init ==
    /\ kv = InitialStore
    /\ issued = {}
    /\ req = NoRequest
    /\ resp = NoResponse
    /\ calls = NoCalls
    /\ identities = Registered
    /\ inflight = NoInflight
    /\ ClientInit

-----------------------------------------------------------------------------
(* GET /profile, lines 390-416 *)

\* the mutant forgets the check of the profile read
ProfileFoundAlways(profile) == TRUE

\* line 407: !profile
ProfileFound(profile) == Truthy(profile)

GetProfile(h) ==
    /\ req' = Request("getProfile", h, "")
    /\ UNCHANGED <<kv, issued>>
    /\ IF ~Authenticated(h)
       THEN /\ resp' = AuthFailure(h)
            /\ calls' = AuthFailureCalls(h)
       ELSE LET user == HeaderUser(h)
                profile == kvGet(kv, ProfileKey(user))
            IN  /\ calls' = [kv |-> << <<"get", ProfileKey(user)>> >>,
                             auth |-> AuthCalls(h)]
                /\ resp' = IF ~ProfileFound(profile)
                           THEN ErrorResponse(404, "Profile not found")
                           ELSE Response(200, [profile |-> profile])

(* POST /profile/password, lines 419-455 *)

MinPasswordLength == 6

\* the mutant accepts every non-empty password
PasswordAcceptedNonEmpty(body) == Has(body, "newPassword") /\ body.newPassword # ""

\* line 436: !newPassword || newPassword.length < 6
PasswordAccepted(body) ==
    /\ Has(body, "newPassword")
    /\ body.newPassword # ""
    /\ Len(body.newPassword) >= MinPasswordLength

UpdateUserCall(user, password) ==
    [call |-> "updateUserById", user |-> user, password |-> password]

\* providerError: the Auth Provider answers updateUserById with an error
UpdatePassword(h, body) ==
    /\ req' = Request("updatePassword", h, "")
    /\ UNCHANGED <<kv, issued>>
    /\ IF ~Authenticated(h)
       THEN /\ resp' = AuthFailure(h)
            /\ calls' = AuthFailureCalls(h)
       ELSE IF ~PasswordAccepted(body)
       THEN /\ resp' = ErrorResponse(400, "Password must be at least 6 characters")
            /\ calls' = [kv |-> <<>>, auth |-> AuthCalls(h)]
       ELSE \E providerError \in BOOLEAN :
            /\ calls' = [kv |-> <<>>,
                         auth |-> AuthCalls(h) \o
                             <<UpdateUserCall(HeaderUser(h), body.newPassword)>>]
            /\ resp' = IF providerError
                       THEN ErrorResponse(400, "provider error")
                       ELSE Response(200, [message |-> "Password updated successfully"])

-----------------------------------------------------------------------------
(* POST /signup, lines 323-366 *)

SignupBodies ==
    { [email |-> "e2", password |-> "abcdef", username |-> "bob"],
      [email |-> "e1", password |-> "abcdef", username |-> "al"],
      [email |-> "e2", password |-> "abc", username |-> "bob"],
      [email |-> "e2", password |-> "abcdef"],
      [email |-> "", password |-> "abcdef", username |-> "bob"] }

\* line 327: !email || !password || !username
SignupFieldsGiven(body) ==
    \A f \in {"email", "password", "username"} : Has(body, f) /\ body[f] # ""

CreateUserCall(body) ==
    [call |-> "createUser", email |-> body.email, password |-> body.password]

\* lines 350-355
NewProfile(user, body, ts) ==
    JObj([userId |-> user, username |-> body.username, email |-> body.email,
          createdAt |-> ts])

\* outcome is the answer of createUser for an email that is not registered
\* yet: an error, no user, or the identity user; written tells whether the
\* store accepted the profile (kv.set throws otherwise)
Signup(body) ==
    /\ req' = Request("signup", <<>>, "")
    /\ UNCHANGED issued
    /\ IF ~SignupFieldsGiven(body)
       THEN /\ resp' = ErrorResponse(400, "Email, password, and username are required")
            /\ calls' = NoCalls
            /\ UNCHANGED <<kv, identities>>
       ELSE IF body.email \in DOMAIN identities
       THEN /\ resp' = ErrorResponse(400, "already registered")
            /\ calls' = [kv |-> <<>>, auth |-> <<CreateUserCall(body)>>]
            /\ UNCHANGED <<kv, identities>>
       ELSE \E outcome \in {"error", "nouser", "user"},
               user \in Users \ Range(identities), ts \in Times, written \in BOOLEAN :
            CASE outcome = "error" ->
                   /\ resp' = ErrorResponse(400, "provider error")
                   /\ calls' = [kv |-> <<>>, auth |-> <<CreateUserCall(body)>>]
                   /\ UNCHANGED <<kv, identities>>
              [] outcome = "nouser" ->
                   /\ resp' = ErrorResponse(500, "Failed to create user")
                   /\ calls' = [kv |-> <<>>, auth |-> <<CreateUserCall(body)>>]
                   /\ UNCHANGED <<kv, identities>>
              [] OTHER ->
                   /\ identities' =
                         [e \in DOMAIN identities \cup {body.email} |->
                             IF e = body.email THEN user ELSE identities[e]]
                   /\ calls' = [kv |-> << <<"set", ProfileKey(user)>> >>,
                                auth |-> <<CreateUserCall(body)>>]
                   /\ IF written
                      THEN /\ kv' = kvSet(kv, ProfileKey(user), NewProfile(user, body, ts))
                           /\ resp' = Response(200, [message |-> "User created successfully",
                                                     userId |-> user,
                                                     username |-> body.username])
                      ELSE /\ kv' = kv
                           /\ resp' = ErrorResponse(500, "Internal server error")

-----------------------------------------------------------------------------
(* GET /notes, lines 460-491 *)

\* the mutant lists every object that has an id
IsListedNoteIdOnly(v) ==
    /\ v.type = "object"
    /\ Has(v.props, "id") /\ v.props.id # ""

\* lines 481-483: note && typeof note === 'object' && note.id && note.title
IsListedNote(v) ==
    /\ v.type = "object"
    /\ Has(v.props, "id") /\ v.props.id # ""
    /\ Has(v.props, "title") /\ v.props.title # ""

FilterNotes(notesData) ==
    [v \in {w \in DOMAIN notesData : IsListedNote(w)} |-> notesData[v]]

\* the notes array GET /notes answers to user with, as a bag
ListNotes(store, user) == FilterNotes(kvGetByPrefix(store, NotePrefix(user)))

GetNotes(h) ==
    /\ req' = Request("getNotes", h, "")
    /\ UNCHANGED <<kv, issued>>
    /\ IF ~Authenticated(h)
       THEN /\ resp' = AuthFailure(h)
            /\ calls' = AuthFailureCalls(h)
       ELSE LET user == HeaderUser(h)
            IN  /\ calls' = [kv |-> << <<"getByPrefix", NotePrefix(user)>> >>,
                             auth |-> AuthCalls(h)]
                /\ resp' = Response(200, [notes |-> ListNotes(kv, user)])

-----------------------------------------------------------------------------
(* POST /notes, lines 494-545 *)

\* the mutant refuses only an undefined title
TitleGivenDefined(body) == Has(body, "title")

\* lines 511 and 515: !title, !deadline
TitleGiven(body) == Has(body, "title") /\ body.title # ""

DeadlineGiven(body) == Has(body, "deadline") /\ Truthy(body.deadline)

\* the mutant lets the request body override the generated fields
NewNoteBodyLast(user, body, noteId, ts) ==
    JObj([id |-> IF Has(body, "id") THEN body.id ELSE noteId,
          userId |-> IF Has(body, "userId") THEN body.userId ELSE user,
          title |-> IF TitleGiven(body) THEN body.title ELSE "",
          text |-> IF Has(body, "text") /\ body.text # "" THEN body.text ELSE "",
          tags |-> IF Has(body, "tags") THEN body.tags ELSE <<>>,
          deadline |-> body.deadline,
          createdAt |-> ts])

\* the mutant stores the title as the text
NewNoteTextFromTitle(user, body, noteId, ts) ==
    JObj([id |-> noteId,
          userId |-> user,
          title |-> IF TitleGiven(body) THEN body.title ELSE "",
          text |-> IF TitleGiven(body) THEN body.title ELSE "",
          tags |-> IF Has(body, "tags") THEN body.tags ELSE <<>>,
          deadline |-> body.deadline,
          createdAt |-> ts])

\* lines 520-528
NewNote(user, body, noteId, ts) ==
    JObj([id |-> noteId,
          userId |-> user,
          title |-> IF TitleGiven(body) THEN body.title ELSE "",
          text |-> IF Has(body, "text") /\ body.text # "" THEN body.text ELSE "",
          tags |-> IF Has(body, "tags") THEN body.tags ELSE <<>>,
          deadline |-> body.deadline,
          createdAt |-> ts])

\* noteId is the value of crypto.randomUUID(), which no earlier call returned;
\* ts is the value of new Date().toISOString()
CreateNote(h, body) ==
    /\ req' = Request("createNote", h, "")
    /\ IF ~Authenticated(h)
       THEN /\ resp' = AuthFailure(h)
            /\ calls' = AuthFailureCalls(h)
            /\ UNCHANGED <<kv, issued>>
       ELSE IF ~TitleGiven(body)
       THEN /\ resp' = ErrorResponse(400, "Title is required")
            /\ calls' = [kv |-> <<>>, auth |-> AuthCalls(h)]
            /\ UNCHANGED <<kv, issued>>
       ELSE IF ~DeadlineGiven(body)
       THEN /\ resp' = ErrorResponse(400, "Deadline is required")
            /\ calls' = [kv |-> <<>>, auth |-> AuthCalls(h)]
            /\ UNCHANGED <<kv, issued>>
       ELSE \E noteId \in NoteIds \ issued, ts \in Times :
            LET user == HeaderUser(h)
                note == NewNote(user, body, noteId, ts)
                key  == NoteKey(user, noteId)
            IN  /\ issued' = issued \cup {noteId}
                /\ kv' = kvSet(kv, key, note)
                /\ calls' = [kv |-> << <<"set", key>>, <<"get", key>> >>,
                             auth |-> AuthCalls(h)]
                /\ resp' = Response(200, [note |-> note])

-----------------------------------------------------------------------------
(* PUT /notes/:id, lines 548-588 *)

PropsOf(v) == IF v.type = "object" THEN v.props ELSE <<>>

\* the mutant forgets the existence check
NoteFoundAlways(existingNote) == TRUE

\* lines 569 and 611: !existingNote
NoteFound(existingNote) == Truthy(existingNote)

\* the mutant spreads the whole request body over the existing note
UpdatedNoteSpreadBody(existingNote, body) ==
    LET old == PropsOf(existingNote)
        fields == (DOMAIN old) \cup (DOMAIN body) \cup {"tags", "deadline"}
    IN  JObj([f \in fields |->
                CASE f = "tags" -> IF Has(body, "tags") THEN body.tags ELSE <<>>
                  [] f = "deadline" -> IF DeadlineGiven(body) THEN body.deadline ELSE JNull
                  [] f \in DOMAIN body -> body[f]
                  [] OTHER -> old[f]])

\* the mutant keeps the stored deadline when the body supplies none
UpdatedNoteKeepDeadline(existingNote, body) ==
    LET old == PropsOf(existingNote)
        fields == ((DOMAIN old) \ {"title", "text"})
                      \cup ({"title", "text"} \cap DOMAIN body)
                      \cup {"tags", "deadline"}
    IN  JObj([f \in fields |->
                CASE f = "title" -> body.title
                  [] f = "text" -> body.text
                  [] f = "tags" -> IF Has(body, "tags") THEN body.tags ELSE <<>>
                  [] f = "deadline" -> IF DeadlineGiven(body) THEN body.deadline
                                       ELSE IF Has(old, "deadline") THEN old.deadline
                                       ELSE JNull
                  [] OTHER -> old[f]])

\* lines 573-579: { ...existingNote, title, text, tags: tags || [],
\* deadline: deadline || null }; an undefined title or text is not stored
UpdatedNote(existingNote, body) ==
    LET old == PropsOf(existingNote)
        fields == ((DOMAIN old) \ {"title", "text"})
                      \cup ({"title", "text"} \cap DOMAIN body)
                      \cup {"tags", "deadline"}
    IN  JObj([f \in fields |->
                CASE f = "title" -> body.title
                  [] f = "text" -> body.text
                  [] f = "tags" -> IF Has(body, "tags") THEN body.tags ELSE <<>>
                  [] f = "deadline" -> IF DeadlineGiven(body) THEN body.deadline ELSE JNull
                  [] OTHER -> old[f]])

UpdateNote(h, noteId, body) ==
    /\ req' = Request("updateNote", h, noteId)
    /\ UNCHANGED issued
    /\ IF ~Authenticated(h)
       THEN /\ resp' = AuthFailure(h)
            /\ calls' = AuthFailureCalls(h)
            /\ UNCHANGED kv
       ELSE LET user == HeaderUser(h)
                key  == NoteKey(user, noteId)
                existingNote == kvGet(kv, key)
                updatedNote  == UpdatedNote(existingNote, body)
            IN  IF ~NoteFound(existingNote)
                THEN /\ resp' = ErrorResponse(404, "Note not found")
                     /\ calls' = [kv |-> << <<"get", key>> >>, auth |-> AuthCalls(h)]
                     /\ UNCHANGED kv
                ELSE /\ kv' = kvSet(kv, key, updatedNote)
                     /\ calls' = [kv |-> << <<"get", key>>, <<"set", key>> >>,
                                  auth |-> AuthCalls(h)]
                     /\ resp' = Response(200, [note |-> updatedNote])

-----------------------------------------------------------------------------
(* DELETE /notes/:id, lines 591-622 *)

DeleteNote(h, noteId) ==
    /\ req' = Request("deleteNote", h, noteId)
    /\ UNCHANGED issued
    /\ IF ~Authenticated(h)
       THEN /\ resp' = AuthFailure(h)
            /\ calls' = AuthFailureCalls(h)
            /\ UNCHANGED kv
       ELSE LET user == HeaderUser(h)
                key  == NoteKey(user, noteId)
                existingNote == kvGet(kv, key)
            IN  IF ~NoteFound(existingNote)
                THEN /\ resp' = ErrorResponse(404, "Note not found")
                     /\ calls' = [kv |-> << <<"get", key>> >>, auth |-> AuthCalls(h)]
                     /\ UNCHANGED kv
                ELSE /\ kv' = kvDel(kv, key)
                     /\ calls' = [kv |-> << <<"get", key>>, <<"del", key>> >>,
                                  auth |-> AuthCalls(h)]
                     /\ resp' = Response(200, [message |-> "Note deleted successfully"])

-----------------------------------------------------------------------------

\* the answer is sent and the invocation ends; each request is handled
\* statelessly, only the store outlives it
Finish ==
    /\ ~Idle
    /\ req' = NoRequest
    /\ resp' = NoResponse
    /\ calls' = NoCalls
    /\ UNCHANGED <<kv, issued>>

\* the server function, whatever its clients are
Next ==
    \/ Idle /\ UNCHANGED <<identities, inflight, clientVars>> /\ \E h \in Headers : GetProfile(h)
    \/ Idle /\ UNCHANGED <<identities, inflight, clientVars>>
            /\ \E h \in Headers, b \in PasswordBodies : UpdatePassword(h, b)
    \/ Idle /\ UNCHANGED <<identities, inflight, clientVars>> /\ \E h \in Headers : GetNotes(h)
    \/ Idle /\ UNCHANGED <<identities, inflight, clientVars>>
            /\ \E h \in Headers, b \in Bodies : CreateNote(h, b)
    \/ Idle /\ UNCHANGED <<identities, inflight, clientVars>>
            /\ \E h \in Headers, n \in NoteIds, b \in UpdateBodies : UpdateNote(h, n, b)
    \/ Idle /\ UNCHANGED <<identities, inflight, clientVars>>
            /\ \E h \in Headers, n \in NoteIds : DeleteNote(h, n)
    \/ Finish /\ UNCHANGED <<identities, inflight, clientVars>>

Spec == Init /\ [][Next]_vars

\* the server function with its signup endpoint, from the state in which
\* only u1 has signed up; the profile write of a signup can fail
InitSignup ==
    /\ kv = InitialStore
    /\ issued = {}
    /\ req = NoRequest
    /\ resp = NoResponse
    /\ calls = NoCalls
    /\ identities = [e \in {"e1"} |-> "u1"]
    /\ inflight = NoInflight
    /\ ClientInit

NextSignup ==
    \/ Next
    \/ Idle /\ UNCHANGED <<inflight, clientVars>> /\ \E b \in SignupBodies : Signup(b)

SpecSignup == InitSignup /\ [][NextSignup]_vars

\* POST /notes (lines 494-544) over a store whose operations can throw, for
\* a request that passes the checks of the handler; failure is the store
\* operation that throws: the kv.set of line 533, which then has written
\* nothing, or the kv.get of line 537 that reads the note back after it was
\* written; the catch of lines 541-544 answers 500
CreateNoteStoreFails(h, body, failure) ==
    /\ Authenticated(h)
    /\ TitleGiven(body)
    /\ DeadlineGiven(body)
    /\ req' = Request("createNote", h, "")
    /\ \E noteId \in NoteIds \ issued, ts \in Times :
          LET user == HeaderUser(h)
              note == NewNote(user, body, noteId, ts)
              key  == NoteKey(user, noteId)
          IN  /\ issued' = issued \cup {noteId}
              /\ kv' = IF failure = "set" THEN kv ELSE kvSet(kv, key, note)
              /\ calls' = [kv |-> IF failure = "set"
                                  THEN << <<"set", key>> >>
                                  ELSE << <<"set", key>>, <<"get", key>> >>,
                           auth |-> AuthCalls(h)]
              /\ resp' = ErrorResponse(500, "Internal server error")

\* the server function over a store whose operations can throw while a note
\* is created
NextStoreFails ==
    \/ Next
    \/ Idle /\ UNCHANGED <<identities, inflight, clientVars>>
            /\ \E h \in Headers, b \in Bodies, failure \in {"set", "get"} :
                  CreateNoteStoreFails(h, b, failure)

SpecStoreFails == Init /\ [][NextStoreFails]_vars

\* the handlers over a store with legacy entries
InitLegacy ==
    /\ kv = LegacyStore
    /\ issued = {}
    /\ req = NoRequest
    /\ resp = NoResponse
    /\ calls = NoCalls
    /\ identities = Registered
    /\ inflight = NoInflight
    /\ ClientInit

SpecLegacy == InitLegacy /\ [][Next]_vars

-----------------------------------------------------------------------------
(* Requests handled concurrently.  A handler runs up to its next await and  *)
(* the runtime then continues any handler whose awaited call has returned;  *)
(* the store executes one call at a time (PUT lines 548-588, DELETE lines   *)
(* 591-622).  inflight[s] is the request in slot s: its operation, header,  *)
(* note id and body, the await it has reached (pc), the note its kv.get     *)
(* returned and its answer.                                                 *)

Slots == {"r1", "r2"}

FreeSlot == [pc |-> "free"]

NoBody == [none |-> TRUE]

\* bodies of the PUT requests that run concurrently
ConcurrentBodies ==
    { [title |-> "B", text |-> "y", tags |-> <<"t">>, deadline |-> JStr("d2")],
      [title |-> "A", text |-> "x"] }

\* the note u1 created before the concurrent requests arrive
StoredNote ==
    NewNote("u1", [title |-> "A", text |-> "x", tags |-> <<"t">>,
                   deadline |-> JStr("d1")], "n1", "t1")

\* the request arrives and its token is resolved (lines 550-562, 593-605)
Receive(s, op, h, noteId, body) ==
    /\ inflight[s].pc = "free"
    /\ UNCHANGED kv
    /\ IF ~Authenticated(h)
       THEN inflight' = [inflight EXCEPT ![s] =
                [pc |-> "done", op |-> op, auth |-> h, id |-> noteId, body |-> body,
                 existingNote |-> JUndefined, resp |-> AuthFailure(h)]]
       ELSE inflight' = [inflight EXCEPT ![s] =
                [pc |-> "get", op |-> op, auth |-> h, id |-> noteId, body |-> body,
                 existingNote |-> JUndefined, resp |-> NoResponse]]

\* kv.get returned and the handler checks its result (lines 567-571, 609-613)
GetReturns(s) ==
    /\ inflight[s].pc = "get"
    /\ UNCHANGED kv
    /\ LET r == inflight[s]
           existingNote == kvGet(kv, NoteKey(HeaderUser(r.auth), r.id))
       IN  IF ~NoteFound(existingNote)
           THEN inflight' = [inflight EXCEPT ![s] =
                    [r EXCEPT !.pc = "done",
                              !.resp = ErrorResponse(404, "Note not found")]]
           ELSE inflight' = [inflight EXCEPT ![s] =
                    [r EXCEPT !.pc = "write", !.existingNote = existingNote]]

\* kv.set of the update or kv.del of the delete is executed and the handler
\* answers (lines 573-583, 615-617)
WriteReturns(s) ==
    /\ inflight[s].pc = "write"
    /\ LET r   == inflight[s]
           key == NoteKey(HeaderUser(r.auth), r.id)
           updatedNote == UpdatedNote(r.existingNote, r.body)
       IN  IF r.op = "updateNote"
           THEN /\ kv' = kvSet(kv, key, updatedNote)
                /\ inflight' = [inflight EXCEPT ![s] =
                      [r EXCEPT !.pc = "done",
                                !.resp = Response(200, [note |-> updatedNote])]]
           ELSE /\ kv' = kvDel(kv, key)
                /\ inflight' = [inflight EXCEPT ![s] =
                      [r EXCEPT !.pc = "done",
                                !.resp = Response(200,
                                            [message |-> "Note deleted successfully"])]]

\* the answer is sent and the invocation ends
Respond(s) ==
    /\ inflight[s].pc = "done"
    /\ inflight' = [inflight EXCEPT ![s] = FreeSlot]
    /\ UNCHANGED kv

InitConcurrent ==
    /\ kv = kvSet(InitialStore, NoteKey("u1", "n1"), StoredNote)
    /\ issued = {"n1"}
    /\ req = NoRequest
    /\ resp = NoResponse
    /\ calls = NoCalls
    /\ identities = Registered
    /\ inflight = [s \in Slots |-> FreeSlot]
    /\ ClientInit

concurrentFrame == <<issued, req, resp, calls, identities, clientVars>>

NextConcurrent ==
    \/ UNCHANGED concurrentFrame
          /\ \E s \in Slots, h \in Headers, n \in NoteIds, b \in ConcurrentBodies :
                Receive(s, "updateNote", h, n, b)
    \/ UNCHANGED concurrentFrame
          /\ \E s \in Slots, h \in Headers, n \in NoteIds :
                Receive(s, "deleteNote", h, n, NoBody)
    \/ UNCHANGED concurrentFrame /\ \E s \in Slots : GetReturns(s)
    \/ UNCHANGED concurrentFrame /\ \E s \in Slots : WriteReturns(s)
    \/ UNCHANGED concurrentFrame /\ \E s \in Slots : Respond(s)

SpecConcurrent == InitConcurrent /\ [][NextConcurrent]_vars

-----------------------------------------------------------------------------
(* Texts the user types: sequences of characters *)

RECURSIVE TrimStart(_)
TrimStart(s) == IF s # <<>> /\ Head(s) = " " THEN TrimStart(Tail(s)) ELSE s

RECURSIVE TrimEnd(_)
TrimEnd(s) ==
    IF s # <<>> /\ s[Len(s)] = " " THEN TrimEnd(SubSeq(s, 1, Len(s) - 1)) ELSE s

\* String.prototype.trim
Trim(s) == TrimEnd(TrimStart(s))

\* s.split(c)[0]: the part of s before the first c
RECURSIVE SplitFirst(_, _)
SplitFirst(s, c) ==
    IF s = <<>> \/ Head(s) = c THEN <<>> ELSE <<Head(s)>> \o SplitFirst(Tail(s), c)

\* what the user may type into the fields of the login form
Emails == {<<>>, <<"e", "@", "x">>}

Usernames == {<<>>, <<" ">>, <<"u">>}

Passwords ==
    { <<>>, <<"a", "b", "c", "d", "e">>, <<"a", "b", "c", "d", "e", "f">> }

\* the access tokens of the sessions the Auth Provider opens for the user
Tokens == {"tok1", "tok1r"}

\* at most MaxPending calls and timers are awaited at a time
MaxPending == 2

CanAwait == BagCardinality(pending) < MaxPending

Awaited(call) == SetToBag({call})

-----------------------------------------------------------------------------
(* App, lines 134-285 of api.tsx *)

UserData(username, email, userId, accessToken) ==
    [username |-> username, email |-> email, userId |-> userId,
     accessToken |-> accessToken]

\* renderCurrentScreen, lines 227-278: the component App renders
Shown(a) ==
    IF a.loading THEN "Loading"
    ELSE IF a.currentScreen = "login" THEN "LoginRegister"
    ELSE IF a.user = JNull THEN "Nothing"
    ELSE IF a.currentScreen = "main" THEN "MainPage"
    ELSE IF a.currentScreen = "noteEditor" THEN "NoteEditor"
    ELSE "AccountSettings"

\* the awaited calls after a render that shows component: those of a
\* component that is no longer rendered lose their component
Orphaned(q, component) ==
    LET stale(c) == IF c.of \in {"App", component} THEN c ELSE [c EXCEPT !.live = FALSE]
        calls_  == {stale(c) : c \in DOMAIN q}
    IN  [d \in calls_ |->
            LET from == {c \in DOMAIN q : stale(c) = d}
                sum[S \in SUBSET from] ==
                    IF S = {} THEN 0
                    ELSE LET c == CHOOSE x \in S : TRUE IN q[c] + sum[S \ {c}]
            IN  sum[from]]

\* App sets its state to a and re-renders: a component that stays rendered
\* keeps its state (lr, ed, st), one that appears is mounted anew, and q are
\* the calls awaited
Render(a, lr, ed, st, q) ==
    /\ app' = a
    /\ loginRegister' =
          IF Shown(a) = "LoginRegister" /\ Shown(app) = "LoginRegister"
          THEN lr ELSE LoginRegisterMounted
    /\ noteEditor' =
          IF Shown(a) # "NoteEditor" THEN NoteEditorMounted(JNull)
          ELSE IF Shown(app) = "NoteEditor" THEN ed
          ELSE NoteEditorMounted(a.editingNote)
    /\ accountSettings' =
          IF Shown(a) = "AccountSettings" /\ Shown(app) = "AccountSettings"
          THEN st ELSE AccountSettingsMounted
    /\ pending' = Orphaned(q, Shown(a))

\* getSession of checkSession returned, lines 144-163
GetSessionReturns(c, outcome, token) ==
    /\ BagIn(c, pending) /\ c.call = "getSession"
    /\ IF outcome = "session"
       THEN /\ pending' = (pending (-) Awaited(c)) (+)
                              Awaited(Await("App", [call |-> "getProfile",
                                                    accessToken |-> token,
                                                    userId |-> "u1"]))
            /\ UNCHANGED <<app, loginRegister, noteEditor, accountSettings>>
       ELSE Render([app EXCEPT !.loading = FALSE],
                   loginRegister, noteEditor, accountSettings, pending (-) Awaited(c))

\* getProfile of checkSession returned, lines 150-163
GetProfileReturns(c, ok) ==
    /\ BagIn(c, pending) /\ c.call = "getProfile"
    /\ Render(IF ok
              THEN [app EXCEPT !.user = UserData(<<"u">>, <<"e", "@", "x">>,
                                                 c.userId, c.accessToken),
                               !.currentScreen = "main",
                               !.loading = FALSE]
              ELSE [app EXCEPT !.loading = FALSE],
              loginRegister, noteEditor, accountSettings, pending (-) Awaited(c))

\* handleLogin, lines 169-172: it awaits getUser
HandleLoginCall(username, accessToken, userId) ==
    Await("App", [call |-> "getUser", username |-> username,
                  accessToken |-> accessToken, userId |-> userId])

\* getUser of handleLogin resolved, lines 172-182; hasUser: data.user is set
HandleLoginResolves(c, hasUser, hasEmail) ==
    /\ BagIn(c, pending) /\ c.call = "getUser"
    /\ Render(IF hasUser
              THEN [app EXCEPT
                       !.user = UserData(c.username,
                                         IF hasEmail THEN <<"e", "@", "x">> ELSE <<>>,
                                         c.userId, c.accessToken),
                       !.currentScreen = "main"]
              ELSE app,
              loginRegister, noteEditor, accountSettings, pending (-) Awaited(c))

\* handleLogout, lines 185-190, with the calls q awaited after it
HandleLogout(q) ==
    Render([app EXCEPT !.user = JNull, !.currentScreen = "login",
                       !.editingNote = JNull],
           loginRegister, noteEditor, accountSettings, q)

\* handleCreateNote (192-195) and handleEditNote (197-200); note is JNull
\* for a new note
HandleEditNote(note) ==
    Render([app EXCEPT !.editingNote = note, !.currentScreen = "noteEditor"],
           loginRegister, noteEditor, accountSettings, pending)

\* handleSaveNote (202-207) and handleCancelEdit (209-212), with the calls q
\* awaited after it
HandleSaveNote(q) ==
    Render([app EXCEPT !.editingNote = JNull, !.currentScreen = "main"],
           loginRegister, noteEditor, accountSettings, q)

\* handleTokenRefresh, lines 218-225; user is the user of the render whose
\* handler the caller holds
HandleTokenRefresh(user, newToken) ==
    IF user # JNull THEN [app EXCEPT !.user = [user EXCEPT !.accessToken = newToken]]
    ELSE app

\* onAvatarClick (248) and onBack (269)
SetCurrentScreen(screen) ==
    Render([app EXCEPT !.currentScreen = screen],
           loginRegister, noteEditor, accountSettings, pending)

-----------------------------------------------------------------------------
(* LoginRegister, src/unnamed/part_000 *)

LoginRegisterShown == Shown(app) = "LoginRegister"

\* the fields and buttons are disabled while loading (lines 126-202)
LoginRegisterEnabled == LoginRegisterShown /\ ~loginRegister.loading

SetUsername(v) ==
    /\ LoginRegisterEnabled /\ ~loginRegister.isLogin
    /\ loginRegister' = [loginRegister EXCEPT !.username = v]
    /\ UNCHANGED <<app, noteEditor, accountSettings, pending>>

SetEmail(v) ==
    /\ LoginRegisterEnabled
    /\ loginRegister' = [loginRegister EXCEPT !.email = v]
    /\ UNCHANGED <<app, noteEditor, accountSettings, pending>>

SetPassword(v) ==
    /\ LoginRegisterEnabled
    /\ loginRegister' = [loginRegister EXCEPT !.password = v]
    /\ UNCHANGED <<app, noteEditor, accountSettings, pending>>

SetConfirmPassword(v) ==
    /\ LoginRegisterEnabled /\ ~loginRegister.isLogin
    /\ loginRegister' = [loginRegister EXCEPT !.confirmPassword = v]
    /\ UNCHANGED <<app, noteEditor, accountSettings, pending>>

\* the Login and Register buttons, lines 119-140
SetIsLogin(v) ==
    /\ LoginRegisterEnabled
    /\ loginRegister' = [loginRegister EXCEPT !.isLogin = v, !.error = ""]
    /\ UNCHANGED <<app, noteEditor, accountSettings, pending>>

\* setError(msg); setLoading(false); return
LoginRegisterRejects(msg) ==
    /\ loginRegister' = [loginRegister EXCEPT !.error = msg, !.loading = FALSE]
    /\ UNCHANGED <<app, noteEditor, accountSettings, pending>>

SignInCall(mode, lr) ==
    Await("LoginRegister",
          [call |-> "signInWithPassword", mode |-> mode, email |-> lr.email,
           password |-> lr.password, username |-> lr.username])

SignUpCall(lr) ==
    Await("LoginRegister",
          [call |-> "signUp", email |-> lr.email, password |-> lr.password,
           username |-> lr.username])

\* the mutant forgets the length check of the register flow
RegisterPasswordShortNever(password) == FALSE

\* line 71: password.length < 6
RegisterPasswordShort(password) == Len(password) < 6

\* handleSubmit up to its first await, lines 22-78
LoginRegisterHandleSubmit ==
    /\ LoginRegisterEnabled
    /\ LET lr == loginRegister
       IN  IF lr.isLogin
           THEN IF Trim(lr.email) = <<>> \/ Trim(lr.password) = <<>>
                THEN LoginRegisterRejects("Please fill in all fields")
                ELSE /\ CanAwait
                     /\ loginRegister' = [lr EXCEPT !.error = "", !.loading = TRUE]
                     /\ pending' = pending (+) Awaited(SignInCall("login", lr))
                     /\ UNCHANGED <<app, noteEditor, accountSettings>>
           ELSE IF \/ Trim(lr.email) = <<>>
                   \/ Trim(lr.password) = <<>>
                   \/ Trim(lr.username) = <<>>
                THEN LoginRegisterRejects("Please fill in all fields")
                ELSE IF lr.password # lr.confirmPassword
                THEN LoginRegisterRejects("Passwords do not match")
                ELSE IF RegisterPasswordShort(lr.password)
                THEN LoginRegisterRejects("Password must be at least 6 characters")
                ELSE /\ CanAwait
                     /\ loginRegister' = [lr EXCEPT !.error = "", !.loading = TRUE]
                     /\ pending' = pending (+) Awaited(SignUpCall(lr))
                     /\ UNCHANGED <<app, noteEditor, accountSettings>>

\* the state of LoginRegister after a continuation of the awaited call c
\* set it to lr
LoginRegisterSet(c, lr) == IF c.live THEN lr ELSE loginRegister

\* signUp returned, lines 78-85 and 104-108: fetchAPI throws the error of an
\* answer that is not ok
SignUpReturns(c, ok) ==
    /\ BagIn(c, pending) /\ c.call = "signUp"
    /\ UNCHANGED <<app, noteEditor, accountSettings>>
    /\ IF ok
       THEN /\ pending' = (pending (-) Awaited(c)) (+)
                              Awaited([SignInCall("register", c) EXCEPT !.live = c.live])
            /\ UNCHANGED loginRegister
       ELSE /\ pending' = pending (-) Awaited(c)
            /\ loginRegister' =
                  LoginRegisterSet(c, [loginRegister EXCEPT !.error = "signup error",
                                                            !.loading = FALSE])

\* signInWithPassword returned, lines 37-56 and 82-102; outcome is what the
\* Auth Provider answered: it threw, an error, no session, or a session
\* (its token, and whether the user's metadata holds a username)
SignInReturns(c, outcome, token, hasMetadata) ==
    /\ BagIn(c, pending) /\ c.call = "signInWithPassword"
    /\ UNCHANGED <<app, noteEditor, accountSettings>>
    /\ CASE outcome = "throws" ->
              /\ pending' = pending (-) Awaited(c)
              /\ loginRegister' =
                    LoginRegisterSet(c, [loginRegister EXCEPT !.error = "network error",
                                                              !.loading = FALSE])
         [] outcome \in {"error", "nosession"} ->
              /\ pending' = pending (-) Awaited(c)
              /\ loginRegister' =
                    LoginRegisterSet(c,
                        IF c.mode = "login"
                        THEN [loginRegister EXCEPT
                                 !.error = IF outcome = "error"
                                           THEN "Invalid login credentials"
                                           ELSE "Login failed",
                                 !.loading = FALSE]
                        ELSE [loginRegister EXCEPT
                                 !.error = "Registration successful! Please log in.",
                                 !.isLogin = TRUE,
                                 !.loading = FALSE])
         [] OTHER ->
              LET name == IF c.mode = "register" THEN c.username
                          ELSE IF hasMetadata THEN <<"u">>
                          ELSE SplitFirst(c.email, "@")
              IN  /\ pending' = (pending (-) Awaited(c)) (+)
                                    Awaited(HandleLoginCall(name, token, "u1"))
                  /\ UNCHANGED loginRegister

-----------------------------------------------------------------------------
(* MainPage (src/unnamed/part_001): the handlers that leave the page *)

\* new Date(deadline) set to the end of the day, as ISO date-time
\* (NoteEditor lines 68-75)
ISODeadline(d) == <<d, "T23:59:59.999Z">>

\* the notes the list of MainPage shows (NoteType, Note.tsx lines 6-13)
ClientNotes ==
    { [id |-> "n1", title |-> <<"A">>, text |-> <<"x">>, tags |-> << <<"t">> >>,
       deadline |-> ISODeadline("d1"), createdAt |-> "t1"],
      [id |-> "n2", title |-> <<"B">>, text |-> <<>>,
       tags |-> << <<"T">>, <<"t">>, <<"t">> >>,
       deadline |-> ISODeadline("d2"), createdAt |-> "t2"] }

MainPageShown == Shown(app) = "MainPage"

\* onCreateNote (line 195) and onNoteClick (lines 130, 186)
OnCreateNote == MainPageShown /\ HandleEditNote(JNull)

OnNoteClick(note) == MainPageShown /\ HandleEditNote(note)

\* onAvatarClick (line 115)
OnAvatarClick == MainPageShown /\ SetCurrentScreen("accountSettings")

-----------------------------------------------------------------------------
(* NoteEditor, src/src/components/NoteEditor.tsx lines 1-222 *)

Titles == {<<" ">>, <<"B">>}

Texts == {<<"y">>}

TagInputs == {<<" ">>, <<"t">>, <<" ", "T", " ">>, <<"s">>}

Deadlines == {"", "d2"}

LowerChar(c) == CASE c = "T" -> "t" [] c = "A" -> "a" [] c = "B" -> "b" [] OTHER -> c

\* String.prototype.toLowerCase
ToLowerCase(s) == [i \in 1..Len(s) |-> LowerChar(s[i])]

NoteEditorShown == Shown(app) = "NoteEditor"

\* the mutant leaves the buttons enabled while loading
NoteEditorEnabledAlways == TRUE

\* disabled={loading} of the delete, submit and cancel buttons (129, 210, 213)
NoteEditorEnabled == ~noteEditor.loading

\* the inputs of the form, lines 140-177
SetTitle(v) ==
    /\ NoteEditorShown
    /\ noteEditor' = [noteEditor EXCEPT !.title = v]
    /\ UNCHANGED <<app, loginRegister, accountSettings, pending>>

SetText(v) ==
    /\ NoteEditorShown
    /\ noteEditor' = [noteEditor EXCEPT !.text = v]
    /\ UNCHANGED <<app, loginRegister, accountSettings, pending>>

SetDeadline(v) ==
    /\ NoteEditorShown
    /\ noteEditor' = [noteEditor EXCEPT !.deadline = v]
    /\ UNCHANGED <<app, loginRegister, accountSettings, pending>>

SetTagInput(v) ==
    /\ NoteEditorShown
    /\ noteEditor' = [noteEditor EXCEPT !.tagInput = v]
    /\ UNCHANGED <<app, loginRegister, accountSettings, pending>>

\* the mutant appends the tag without looking for it
AddTagAlways(tags, newTag) == Append(tags, newTag)

\* lines 41-43: if (!tags.includes(newTag)) setTags([...tags, newTag])
AddTag(tags, newTag) ==
    IF \E i \in 1..Len(tags) : tags[i] = newTag THEN tags ELSE Append(tags, newTag)

\* handleAddTag, lines 37-46: Enter in the tag input with a non-blank text
HandleAddTag ==
    /\ NoteEditorShown
    /\ Trim(noteEditor.tagInput) # <<>>
    /\ noteEditor' =
          [noteEditor EXCEPT
              !.tags = AddTag(noteEditor.tags, ToLowerCase(Trim(noteEditor.tagInput))),
              !.tagInput = <<>>]
    /\ UNCHANGED <<app, loginRegister, accountSettings, pending>>

\* removeTag, lines 48-50
RemoveTag(tagToRemove) ==
    /\ NoteEditorShown
    /\ \E i \in 1..Len(noteEditor.tags) : noteEditor.tags[i] = tagToRemove
    /\ noteEditor' =
          [noteEditor EXCEPT
              !.tags = SelectSeq(noteEditor.tags, LAMBDA tag : tag # tagToRemove)]
    /\ UNCHANGED <<app, loginRegister, accountSettings, pending>>

\* lines 81-87: updateNote for the note edited, createNote without one; the
\* record keeps what tells the awaited calls apart, and no continuation reads
\* the noteData sent (lines 71-76)
SaveCall(note, accessToken) ==
    Await("NoteEditor",
          [call |-> IF note # JNull THEN "updateNote" ELSE "createNote",
           accessToken |-> accessToken,
           noteId |-> IF note # JNull THEN note.id ELSE ""])

\* line 108
DeleteCall(note, accessToken) ==
    Await("NoteEditor",
          [call |-> "deleteNote", accessToken |-> accessToken, noteId |-> note.id])

\* handleSubmit up to its await, lines 52-87
NoteEditorHandleSubmit ==
    /\ NoteEditorShown
    /\ NoteEditorEnabled
    /\ UNCHANGED <<app, loginRegister, accountSettings>>
    /\ IF Trim(noteEditor.title) = <<>>
       THEN /\ noteEditor' = [noteEditor EXCEPT !.error = "Title is required"]
            /\ UNCHANGED pending
       ELSE IF noteEditor.deadline = ""
       THEN /\ noteEditor' = [noteEditor EXCEPT !.error = "Deadline is required"]
            /\ UNCHANGED pending
       ELSE /\ CanAwait
            /\ noteEditor' = [noteEditor EXCEPT !.loading = TRUE, !.error = ""]
            /\ pending' = pending (+)
                  Awaited(SaveCall(app.editingNote, app.user.accessToken))

\* handleDelete up to its await, lines 97-108; confirmed: the answer to
\* confirm()
HandleDelete(confirmed) ==
    /\ NoteEditorShown
    /\ NoteEditorEnabled
    /\ app.editingNote # JNull
    /\ UNCHANGED <<app, loginRegister, accountSettings>>
    /\ IF ~confirmed
       THEN UNCHANGED <<noteEditor, pending>>
       ELSE /\ CanAwait
            /\ noteEditor' = [noteEditor EXCEPT !.loading = TRUE, !.error = ""]
            /\ pending' = pending (+)
                  Awaited(DeleteCall(app.editingNote, app.user.accessToken))

\* the mutant empties the form when a request fails
NoteEditorFailedReset(ed, msg) ==
    [NoteEditorMounted(JNull) EXCEPT !.error = msg]

\* lines 92-93 and 112-113: setError(err.message); setLoading(false)
NoteEditorFailed(ed, msg) == [ed EXCEPT !.error = msg, !.loading = FALSE]

\* createNote, updateNote or deleteNote returned, lines 88-94 and 109-114:
\* onSave() after an answer that is ok, the error of fetchAPI otherwise
SaveReturns(c, ok) ==
    /\ BagIn(c, pending) /\ c.call \in {"createNote", "updateNote", "deleteNote"}
    /\ IF ok
       THEN HandleSaveNote(pending (-) Awaited(c))
       ELSE /\ pending' = pending (-) Awaited(c)
            /\ noteEditor' = IF c.live THEN NoteEditorFailed(noteEditor, "request failed")
                             ELSE noteEditor
            /\ UNCHANGED <<app, loginRegister, accountSettings>>

\* the Cancel button, line 213: onCancel is handleCancelEdit (209-212)
OnCancel ==
    /\ NoteEditorShown
    /\ NoteEditorEnabled
    /\ HandleSaveNote(pending)

-----------------------------------------------------------------------------
(* AccountSettings, src/src/components/NoteEditor.tsx lines 223-429 *)

AccountSettingsShown == Shown(app) = "AccountSettings"

\* what the user may type into the fields of the dialog
NewPasswords ==
    { <<" ">>, <<"a", "b", "c", "d", "e">>, <<"a", "b", "c", "d", "e", "f">> }

\* the Dialog opens and closes, line 348
SetIsChangePasswordOpen(v) ==
    /\ AccountSettingsShown
    /\ accountSettings' = [accountSettings EXCEPT !.isChangePasswordOpen = v]
    /\ UNCHANGED <<app, loginRegister, noteEditor, pending>>

\* the inputs of the dialog, lines 364-380
SetNewPassword(v) ==
    /\ AccountSettingsShown /\ accountSettings.isChangePasswordOpen
    /\ accountSettings' = [accountSettings EXCEPT !.newPassword = v]
    /\ UNCHANGED <<app, loginRegister, noteEditor, pending>>

SetConfirmNewPassword(v) ==
    /\ AccountSettingsShown /\ accountSettings.isChangePasswordOpen
    /\ accountSettings' = [accountSettings EXCEPT !.confirmPassword = v]
    /\ UNCHANGED <<app, loginRegister, noteEditor, pending>>

\* the Cancel button of the dialog, lines 396-408
OnCancelChangePassword ==
    /\ AccountSettingsShown /\ accountSettings.isChangePasswordOpen
    /\ ~accountSettings.loading
    /\ accountSettings' = [accountSettings EXCEPT !.isChangePasswordOpen = FALSE,
                                                  !.passwordError = "",
                                                  !.passwordSuccess = ""]
    /\ UNCHANGED <<app, loginRegister, noteEditor, pending>>

\* setPasswordError(msg); setLoading(false); return
ChangePasswordRejects(msg) ==
    /\ accountSettings' = [accountSettings EXCEPT !.passwordError = msg,
                                                  !.passwordSuccess = "",
                                                  !.loading = FALSE]
    /\ UNCHANGED <<app, loginRegister, noteEditor, pending>>

\* line 275; user is the user of the render whose onTokenRefresh the handler
\* holds
UpdatePasswordCall(user) ==
    Await("AccountSettings",
          [call |-> "updatePassword", accessToken |-> user.accessToken,
           user |-> user])

\* handleChangePassword up to its first await, lines 250-275
HandleChangePassword ==
    /\ AccountSettingsShown /\ accountSettings.isChangePasswordOpen
    /\ ~accountSettings.loading
    /\ LET st == accountSettings
       IN  IF Trim(st.newPassword) = <<>> \/ Trim(st.confirmPassword) = <<>>
           THEN ChangePasswordRejects("Please fill in both password fields")
           ELSE IF st.newPassword # st.confirmPassword
           THEN ChangePasswordRejects("Passwords do not match")
           ELSE IF Len(st.newPassword) < 6
           THEN ChangePasswordRejects("Password must be at least 6 characters")
           ELSE /\ CanAwait
                /\ accountSettings' = [st EXCEPT !.passwordError = "",
                                                 !.passwordSuccess = "",
                                                 !.loading = TRUE]
                /\ pending' = pending (+)
                                  Awaited(UpdatePasswordCall(app.user))
                /\ UNCHANGED <<app, loginRegister, noteEditor>>

\* the state of AccountSettings after a continuation of the awaited call c
\* set it to st
AccountSettingsSet(c, st) == IF c.live THEN st ELSE accountSettings

\* updatePassword returned, lines 275-279 and 303-308
UpdatePasswordReturns(c, ok) ==
    /\ BagIn(c, pending) /\ c.call = "updatePassword"
    /\ UNCHANGED <<app, loginRegister, noteEditor>>
    /\ IF ok
       THEN /\ pending' = (pending (-) Awaited(c)) (+)
                              Awaited([c EXCEPT !.call = "refreshSession"])
            /\ UNCHANGED accountSettings
       ELSE /\ pending' = pending (-) Awaited(c)
            /\ accountSettings' =
                  AccountSettingsSet(c, [accountSettings EXCEPT
                                            !.passwordError = "request failed",
                                            !.loading = FALSE])

\* a timer of setTimeout, lines 285-287 and 299-302
Timer(c, name) ==
    [call |-> name, of |-> "AccountSettings", live |-> c.live]

\* refreshSession returned, lines 279-308; outcome is what the Auth Provider
\* answered: it threw, an error, no session, or a session with token
RefreshSessionReturns(c, outcome, token) ==
    /\ BagIn(c, pending) /\ c.call = "refreshSession"
    /\ CASE outcome = "throws" ->
              /\ pending' = pending (-) Awaited(c)
              /\ accountSettings' =
                    AccountSettingsSet(c, [accountSettings EXCEPT
                                              !.passwordError = "network error",
                                              !.loading = FALSE])
              /\ UNCHANGED <<app, loginRegister, noteEditor>>
         [] outcome = "error" ->
              /\ pending' = (pending (-) Awaited(c)) (+) Awaited(Timer(c, "logoutTimer"))
              /\ accountSettings' =
                    AccountSettingsSet(c, [accountSettings EXCEPT
                          !.passwordSuccess = "Password updated! Please log in again.",
                          !.loading = FALSE])
              /\ UNCHANGED <<app, loginRegister, noteEditor>>
         [] OTHER ->
              Render(IF outcome = "session"
                     THEN HandleTokenRefresh(c.user, token)
                     ELSE app,
                     loginRegister, noteEditor,
                     AccountSettingsSet(c, [accountSettings EXCEPT
                          !.passwordSuccess = "Password updated successfully!",
                          !.newPassword = <<>>,
                          !.confirmPassword = <<>>,
                          !.loading = FALSE]),
                     (pending (-) Awaited(c)) (+) Awaited(Timer(c, "closeTimer")))

\* the timer of lines 299-302 fires
CloseTimerFires(c) ==
    /\ BagIn(c, pending) /\ c.call = "closeTimer"
    /\ pending' = pending (-) Awaited(c)
    /\ accountSettings' =
          AccountSettingsSet(c, [accountSettings EXCEPT !.isChangePasswordOpen = FALSE,
                                                        !.passwordSuccess = ""])
    /\ UNCHANGED <<app, loginRegister, noteEditor>>

\* handleLogout up to its await (lines 311-313), called by the timer of
\* lines 285-287
LogoutTimerFires(c) ==
    /\ BagIn(c, pending) /\ c.call = "logoutTimer"
    /\ pending' = (pending (-) Awaited(c)) (+) Awaited(Timer(c, "signOut"))
    /\ UNCHANGED <<app, loginRegister, noteEditor, accountSettings>>

\* handleLogout up to its await, called by the Logout button (418-424)
OnLogoutClick ==
    /\ AccountSettingsShown
    /\ CanAwait
    /\ pending' = pending (+) Awaited(Await("AccountSettings", [call |-> "signOut"]))
    /\ UNCHANGED <<app, loginRegister, noteEditor, accountSettings>>

\* signOut returned, line 314: onLogout is App.handleLogout
SignOutReturns(c) ==
    /\ BagIn(c, pending) /\ c.call = "signOut"
    /\ HandleLogout(pending (-) Awaited(c))

\* the back button, line 321: onBack
OnBack == AccountSettingsShown /\ SetCurrentScreen("main")

-----------------------------------------------------------------------------

serverVars == <<kv, issued, req, resp, calls, identities, inflight>>

\* every call or timer awaited
Calls == DOMAIN pending

\* the client application from its load to the main page, whatever the
\* server answers
NextClient ==
    \/ UNCHANGED <<serverVars, mainPage>> /\ \E v \in Usernames : SetUsername(v)
    \/ UNCHANGED <<serverVars, mainPage>> /\ \E v \in Emails : SetEmail(v)
    \/ UNCHANGED <<serverVars, mainPage>> /\ \E v \in Passwords : SetPassword(v)
    \/ UNCHANGED <<serverVars, mainPage>> /\ \E v \in Passwords : SetConfirmPassword(v)
    \/ UNCHANGED <<serverVars, mainPage>> /\ \E v \in BOOLEAN : SetIsLogin(v)
    \/ UNCHANGED <<serverVars, mainPage>> /\ LoginRegisterHandleSubmit
    \/ UNCHANGED <<serverVars, mainPage>> /\ \E c \in Calls, ok \in BOOLEAN : SignUpReturns(c, ok)
    \/ UNCHANGED <<serverVars, mainPage>>
            /\ \E c \in Calls, outcome \in {"throws", "error", "nosession", "session"},
                  token \in Tokens, hasMetadata \in BOOLEAN :
                  SignInReturns(c, outcome, token, hasMetadata)
    \/ UNCHANGED <<serverVars, mainPage>>
            /\ \E c \in Calls, hasUser \in BOOLEAN, hasEmail \in BOOLEAN :
                  HandleLoginResolves(c, hasUser, hasEmail)
    \/ UNCHANGED <<serverVars, mainPage>>
            /\ \E c \in Calls, outcome \in {"none", "throws", "session"},
                  token \in Tokens : GetSessionReturns(c, outcome, token)
    \/ UNCHANGED <<serverVars, mainPage>> /\ \E c \in Calls, ok \in BOOLEAN : GetProfileReturns(c, ok)

SpecClient == Init /\ [][NextClient]_vars

\* the session check found the session tok1 of u1 and the profile (the state
\* after GetSessionReturns and GetProfileReturns): App shows the main page
LoggedIn ==
    [AppMounted EXCEPT !.user = UserData(<<"u">>, <<"e", "@", "x">>, "u1", "tok1"),
                       !.currentScreen = "main",
                       !.loading = FALSE]

InitLoggedIn ==
    /\ kv = InitialStore
    /\ issued = {}
    /\ req = NoRequest
    /\ resp = NoResponse
    /\ calls = NoCalls
    /\ identities = Registered
    /\ inflight = NoInflight
    /\ app = LoggedIn
    /\ mainPage = MainPageMounted
    /\ loginRegister = LoginRegisterMounted
    /\ noteEditor = NoteEditorMounted(JNull)
    /\ accountSettings = AccountSettingsMounted
    /\ pending = EmptyBag

\* the main page, the note editor and the logout of a logged-in user
NextEditor ==
    \/ UNCHANGED <<serverVars, mainPage>> /\ OnCreateNote
    \/ UNCHANGED <<serverVars, mainPage>> /\ \E note \in ClientNotes : OnNoteClick(note)
    \/ UNCHANGED <<serverVars, mainPage>> /\ OnAvatarClick
    \/ UNCHANGED <<serverVars, mainPage>> /\ \E v \in Titles : SetTitle(v)
    \/ UNCHANGED <<serverVars, mainPage>> /\ \E v \in Texts : SetText(v)
    \/ UNCHANGED <<serverVars, mainPage>> /\ \E v \in Deadlines : SetDeadline(v)
    \/ UNCHANGED <<serverVars, mainPage>> /\ \E v \in TagInputs : SetTagInput(v)
    \/ UNCHANGED <<serverVars, mainPage>> /\ HandleAddTag
    \/ UNCHANGED <<serverVars, mainPage>> /\ \E i \in 1..Len(noteEditor.tags) : RemoveTag(noteEditor.tags[i])
    \/ UNCHANGED <<serverVars, mainPage>> /\ NoteEditorHandleSubmit
    \/ UNCHANGED <<serverVars, mainPage>> /\ \E confirmed \in BOOLEAN : HandleDelete(confirmed)
    \/ UNCHANGED <<serverVars, mainPage>> /\ \E c \in Calls, ok \in BOOLEAN : SaveReturns(c, ok)
    \/ UNCHANGED <<serverVars, mainPage>> /\ OnCancel
    \/ UNCHANGED <<serverVars, mainPage>> /\ OnLogoutClick
    \/ UNCHANGED <<serverVars, mainPage>> /\ \E c \in Calls : SignOutReturns(c)
    \/ UNCHANGED <<serverVars, mainPage>> /\ OnBack

SpecEditor == InitLoggedIn /\ [][NextEditor]_vars

\* the main page and the account settings of a logged-in user
NextAccount ==
    \/ UNCHANGED <<serverVars, mainPage>> /\ OnAvatarClick
    \/ UNCHANGED <<serverVars, mainPage>> /\ \E v \in BOOLEAN : SetIsChangePasswordOpen(v)
    \/ UNCHANGED <<serverVars, mainPage>> /\ \E v \in NewPasswords : SetNewPassword(v)
    \/ UNCHANGED <<serverVars, mainPage>> /\ \E v \in NewPasswords : SetConfirmNewPassword(v)
    \/ UNCHANGED <<serverVars, mainPage>> /\ OnCancelChangePassword
    \/ UNCHANGED <<serverVars, mainPage>> /\ HandleChangePassword
    \/ UNCHANGED <<serverVars, mainPage>> /\ \E c \in Calls, ok \in BOOLEAN : UpdatePasswordReturns(c, ok)
    \/ UNCHANGED <<serverVars, mainPage>>
            /\ \E c \in Calls :
                  /\ c.call = "refreshSession"
                  /\ \E outcome \in {"throws", "error", "nosession", "session"},
                        token \in Tokens \ {c.accessToken} :
                        RefreshSessionReturns(c, outcome, token)
    \/ UNCHANGED <<serverVars, mainPage>> /\ \E c \in Calls : CloseTimerFires(c)
    \/ UNCHANGED <<serverVars, mainPage>> /\ \E c \in Calls : LogoutTimerFires(c)
    \/ UNCHANGED <<serverVars, mainPage>> /\ OnLogoutClick
    \/ UNCHANGED <<serverVars, mainPage>> /\ \E c \in Calls : SignOutReturns(c)
    \/ UNCHANGED <<serverVars, mainPage>> /\ OnBack

SpecAccount == InitLoggedIn /\ [][NextAccount]_vars


-----------------------------------------------------------------------------
(* MainPage, src/unnamed/part_001 *)

\* at most MaxFetched notes are fetched
MaxFetched == 3

\* the days of the deadlines, in their order
Days == <<"d1", "d2", "d3">>

\* the time value of an invalid Date
NaN == [nan |-> TRUE]

\* new Date(deadline).getTime(): the end of day k is the time 2k, and a
\* string that is no date-time gives NaN
GetTime(deadline) ==
    IF Len(deadline) = 2 /\ \E k \in 1..Len(Days) : Days[k] = deadline[1]
    THEN [nan |-> FALSE, time |-> 2 * (CHOOSE k \in 1..Len(Days) : Days[k] = deadline[1])]
    ELSE NaN

\* new Date(): before every deadline, at the end of day d2, after every
\* deadline
Nows == {1, 4, 7}

\* the notes GET /notes may return: each has its own id; a field can be
\* missing, a text or a tag list empty, a deadline no date-time
FetchedNotes ==
    { [id |-> "n1", title |-> <<"A">>, text |-> <<"x">>, tags |-> << <<"t">> >>,
       deadline |-> ISODeadline("d2"), createdAt |-> "t1"],
      [id |-> "n2", title |-> <<"b">>, text |-> <<>>, tags |-> <<>>,
       deadline |-> ISODeadline("d1"), createdAt |-> "t1"],
      [id |-> "n3", title |-> <<"B">>, text |-> <<"y">>,
       tags |-> << <<"T">>, <<"s">> >>,
       deadline |-> ISODeadline("d2"), createdAt |-> "t2"],
      [id |-> "n4", title |-> <<"a">>, text |-> <<"x">>,
       deadline |-> ISODeadline("d3"), createdAt |-> "t2"],
      [id |-> "n5", title |-> <<"A">>, text |-> <<>>, tags |-> <<>>,
       deadline |-> <<"soon">>, createdAt |-> "t2"],
      [id |-> "n6", text |-> <<"x">>, tags |-> <<>>,
       deadline |-> ISODeadline("d1"), createdAt |-> "t1"],
      [id |-> "n7", title |-> <<"A">>, text |-> <<"x">>, tags |-> << <<"t">> >>,
       createdAt |-> "t1"] }

\* the lists of at most MaxFetched of these notes
FetchedLists ==
    UNION { {l \in [1..n -> FetchedNotes] : \A i, j \in 1..n : l[i] = l[j] => i = j} :
            n \in 0..MaxFetched }

SearchQueries == {<<>>, <<"a">>, <<"T">>, <<"y">>}

SortModes == {"name", "time", "tags"}

\* lines 36-42: note.id && note.title && note.deadline
IsValidNote(note) ==
    /\ Has(note, "id") /\ note.id # ""
    /\ Has(note, "title") /\ note.title # <<>>
    /\ Has(note, "deadline") /\ note.deadline # <<>>

\* lines 65-67: note.deadline && new Date(note.deadline) >= new Date()
IsFuture(note, now) ==
    /\ Has(note, "deadline") /\ note.deadline # <<>>
    /\ ~GetTime(note.deadline).nan
    /\ GetTime(note.deadline).time >= now

Sign(x) == IF x < 0 THEN -1 ELSE IF x > 0 THEN 1 ELSE 0

\* new Date(a.deadline).getTime() - new Date(b.deadline).getTime() as sort
\* reads it: its sign, and +0 for NaN
TimeCompare(a, b) ==
    LET ta == GetTime(a.deadline)
        tb == GetTime(b.deadline)
    IN  IF ta.nan \/ tb.nan THEN 0 ELSE Sign(ta.time - tb.time)

\* the place of a character in the alphabetical order of localeCompare
CharRank(c) ==
    LET order == <<" ", "a", "A", "b", "B", "s", "t", "T", "x", "y">>
    IN  CHOOSE k \in 1..Len(order) : order[k] = c

\* String.prototype.localeCompare
RECURSIVE LocaleCompare(_, _)
LocaleCompare(s, t) ==
    IF s = <<>> /\ t = <<>> THEN 0
    ELSE IF s = <<>> THEN -1
    ELSE IF t = <<>> THEN 1
    ELSE IF Head(s) # Head(t) THEN Sign(CharRank(Head(s)) - CharRank(Head(t)))
    ELSE LocaleCompare(Tail(s), Tail(t))

\* Array.prototype.join('')
RECURSIVE Join(_)
Join(tags) == IF tags = <<>> THEN <<>> ELSE Head(tags) \o Join(Tail(tags))

\* lines 92-104: the comparator of the sort mode
SortCompare(sortBy, a, b) ==
    CASE sortBy = "name" -> LocaleCompare(a.title, b.title)
      [] sortBy = "time" -> TimeCompare(a, b)
      [] OTHER ->
           LocaleCompare(ToLowerCase(Join(IF Has(a, "tags") THEN a.tags ELSE <<>>)),
                         ToLowerCase(Join(IF Has(b, "tags") THEN b.tags ELSE <<>>)))

\* the orders in which the elements of a list of n elements can be put
Orders(n) == {p \in [1..n -> 1..n] : \A i, j \in 1..n : p[i] = p[j] => i = j}

\* the comparator of sortBy is a consistent comparator for the elements of
\* list (ECMAScript, Array.prototype.sort)
Consistent(list, sortBy) ==
    \A i, j, k \in 1..Len(list) :
        LET compare(x, y) == SortCompare(sortBy, x, y)
            a == list[i]
            b == list[j]
            c == list[k]
        IN  /\ compare(a, a) = 0
            /\ compare(a, b) = 0 => compare(b, a) = 0
            /\ compare(a, b) < 0 => compare(b, a) > 0
            /\ (compare(a, b) = 0 /\ compare(b, c) = 0) => compare(a, c) = 0
            /\ (compare(a, b) < 0 /\ compare(b, c) < 0) => compare(a, c) < 0
            /\ (compare(a, b) > 0 /\ compare(b, c) > 0) => compare(a, c) > 0

\* Array.prototype.sort with the comparator of sortBy (the comparator of
\* line 69 is that of the sort mode time): the stable order of a consistent
\* comparator, and an order the implementation chooses for any other
ArraySort(list, sortBy) ==
    LET n == Len(list)
        compare(x, y) == SortCompare(sortBy, x, y)
        stable(p) == \A i, j \in 1..n :
                        i < j => \/ compare(list[p[i]], list[p[j]]) < 0
                                 \/ /\ compare(list[p[i]], list[p[j]]) = 0
                                    /\ p[i] < p[j]
        orders == IF Consistent(list, sortBy)
                  THEN {p \in Orders(n) : stable(p)}
                  ELSE Orders(n)
    IN  {[i \in 1..n |-> list[p[i]]] : p \in orders}

\* upcomingNote, lines 63-70, computed at the time now
UpcomingNote(notes, now) ==
    LET futureNotes == SelectSeq(notes, LAMBDA note : IsFuture(note, now))
    IN  IF notes = <<>> \/ futureNotes = <<>> THEN JUndefined
        ELSE (CHOOSE sorted \in ArraySort(futureNotes, "time") : TRUE)[1]

\* String.prototype.includes
Includes(s, part) ==
    \E i \in 0..Len(s) : i + Len(part) <= Len(s) /\ SubSeq(s, i + 1, i + Len(part)) = part

\* lines 77-87: the filter of the search
MatchesSearch(note, searchQuery) ==
    /\ Has(note, "title") /\ note.title # <<>>
    /\ Has(note, "tags")
    /\ LET searchLower == ToLowerCase(searchQuery)
       IN  \/ Includes(ToLowerCase(note.title), searchLower)
           \/ /\ Has(note, "text") /\ note.text # <<>>
              /\ Includes(ToLowerCase(note.text), searchLower)
           \/ \E i \in 1..Len(note.tags) :
                 Includes(ToLowerCase(note.tags[i]), searchLower)

\* lines 77-92: the notes of the list before they are sorted
FilteredNotes(notes, searchQuery, upcomingNote) ==
    SelectSeq(notes, LAMBDA note :
                        /\ MatchesSearch(note, searchQuery)
                        /\ upcomingNote # JUndefined => note.id # upcomingNote.id)

\* filteredAndSortedNotes, lines 73-107: the lists sort can return
FilteredAndSortedNotes(notes, searchQuery, sortBy, upcomingNote) ==
    ArraySort(FilteredNotes(notes, searchQuery, upcomingNote), sortBy)

\* MainPage renders with the state st: useMemo computes the list again
MainPageRenders(st) ==
    /\ \E list \in FilteredAndSortedNotes(st.notes, st.searchQuery, st.sortBy,
                                          st.upcomingNote) :
          mainPage' = [st EXCEPT !.filteredAndSortedNotes = list]
    /\ UNCHANGED <<app, loginRegister, noteEditor, accountSettings>>

\* line 31: the getNotes that fetchNotes awaits
GetNotesCall(accessToken) ==
    Await("MainPage", [call |-> "getNotes", accessToken |-> accessToken])

\* getNotes of fetchNotes returned, lines 31-54: fetched are the notes of an
\* answer that is ok, now the time at which MainPage renders them
FetchNotesReturns(c, ok, fetched, now) ==
    /\ BagIn(c, pending) /\ c.call = "getNotes" /\ c.live
    /\ pending' = pending (-) Awaited(c)
    /\ IF ok
       THEN LET validNotes == SelectSeq(fetched, IsValidNote)
            IN  MainPageRenders([mainPage EXCEPT
                                    !.notes = validNotes,
                                    !.upcomingNote = UpcomingNote(validNotes, now),
                                    !.error = "",
                                    !.loading = FALSE])
       ELSE MainPageRenders([mainPage EXCEPT !.error = "Failed to load notes",
                                             !.loading = FALSE])

\* the search input and the sort buttons
SetSearchQuery(v) ==
    /\ MainPageShown
    /\ v # mainPage.searchQuery
    /\ UNCHANGED pending
    /\ MainPageRenders([mainPage EXCEPT !.searchQuery = v])

SetSortBy(v) ==
    /\ MainPageShown
    /\ v # mainPage.sortBy
    /\ UNCHANGED pending
    /\ MainPageRenders([mainPage EXCEPT !.sortBy = v])

\* the main page of a logged-in user right after it is mounted: its effect
\* (lines 58-60) awaits getNotes
InitMainPage ==
    /\ kv = InitialStore
    /\ issued = {}
    /\ req = NoRequest
    /\ resp = NoResponse
    /\ calls = NoCalls
    /\ identities = Registered
    /\ inflight = NoInflight
    /\ app = LoggedIn
    /\ loginRegister = LoginRegisterMounted
    /\ noteEditor = NoteEditorMounted(JNull)
    /\ accountSettings = AccountSettingsMounted
    /\ mainPage = MainPageMounted
    /\ pending = SetToBag({GetNotesCall(LoggedIn.user.accessToken)})

NextMainPage ==
    \/ UNCHANGED serverVars
          /\ \E c \in Calls, ok \in BOOLEAN, fetched \in FetchedLists, now \in Nows :
                FetchNotesReturns(c, ok, fetched, now)
    \/ UNCHANGED serverVars /\ \E v \in SearchQueries : SetSearchQuery(v)
    \/ UNCHANGED serverVars /\ \E v \in SortModes : SetSortBy(v)

SpecMainPage == InitMainPage /\ [][NextMainPage]_vars

-----------------------------------------------------------------------------
(* Vocabulary of the properties *)

IsNoteKey(k) == Len(k) = 4 /\ k[1] = "user" /\ k[3] = "note"

NoteKeys(store) == {k \in DOMAIN store : IsNoteKey(k)}

\* the entry at k concerns user u: it lies in u's namespace or names u as owner
ConcernsUser(store, k, u) ==
    \/ StartsWith(k, <<"user", u>>)
    \/ /\ store[k].type = "object"
       /\ Has(store[k].props, "userId")
       /\ store[k].props.userId = u

\* the token of the header is missing or the Auth Provider does not resolve it
Unresolved(h) == Len(h) < 2 \/ h[2] \notin DOMAIN Sessions

ProtectedOps ==
    {"getProfile", "updatePassword", "getNotes", "createNote", "updateNote",
     "deleteNote"}

\* the notes a response carries
ReturnedNotes(r) ==
    IF Has(r.body, "notes") THEN DOMAIN r.body.notes
    ELSE IF Has(r.body, "note") THEN {r.body.note}
    ELSE {}

-----------------------------------------------------------------------------
\* C1: ownership isolation.  A request made with the token of user a leaves
\* every entry that concerns another user b unchanged (it is neither
\* modified nor removed, and none is added), answers only with notes that
\* lie in a's namespace and name a as owner, and an update or delete by a of
\* an id under which b has a note answers 404 and leaves the store unchanged.
C1_Step ==
    \A a \in Users :
        (~Unresolved(req'.auth) /\ Sessions[req'.auth[2]] = a) =>
            /\ \A b \in Users \ {a} :
                  /\ kv' # kv =>
                        /\ \A k \in DOMAIN kv :
                              ConcernsUser(kv, k, b) =>
                                  k \in DOMAIN kv' /\ kv'[k] = kv[k]
                        /\ \A k \in DOMAIN kv' :
                              ConcernsUser(kv', k, b) => k \in DOMAIN kv
                  /\ ( /\ req'.op \in {"updateNote", "deleteNote"}
                       /\ <<"user", b, "note", req'.id>> \in DOMAIN kv )
                        => resp'.status = 404 /\ kv' = kv
            /\ \A v \in ReturnedNotes(resp') :
                  /\ v.props.userId = a
                  /\ \E k \in DOMAIN kv' :
                        StartsWith(k, <<"user", a, "note">>) /\ kv'[k] = v

C1_OwnershipIsolation == [][C1_Step]_vars

\* u1 asked to update or delete an id under which u2 holds a note, and got 404
C1_Witness ==
    /\ req.op \in {"updateNote", "deleteNote"}
    /\ req.auth = <<"Bearer", "tok1">>
    /\ <<"user", "u2", "note", req.id>> \in DOMAIN kv
    /\ \E k \in DOMAIN kv : StartsWith(k, <<"user", "u1", "note">>)
    /\ resp.status = 404

\* C2: a request to a protected endpoint whose Authorization header is
\* missing or whose token the Auth Provider does not resolve is answered
\* 401 and performs no key-value store operation.
C2_UnauthenticatedNoStorage ==
    (req.op \in ProtectedOps /\ Unresolved(req.auth)) =>
        /\ resp.status = 401
        /\ calls.kv = <<>>

\* an update with a token the provider does not resolve was answered 401
\* while notes were stored
C2_Witness ==
    /\ req.op = "updateNote"
    /\ req.auth = <<"Bearer", "bogus">>
    /\ resp.status = 401
    /\ NoteKeys(kv) # {}

\* the value of field f of the object p, or JUndefined
Field(p, f) == IF Has(p, f) THEN [type |-> "value", v |-> p[f]] ELSE JUndefined

\* the title, text, tags and deadline a create request submits (an omitted
\* text is the empty text, omitted tags are no tags)
Submitted(p, b) ==
    /\ {"title", "text", "tags", "deadline"} \subseteq DOMAIN p
    /\ p.title = b.title
    /\ p.text = (IF Has(b, "text") THEN b.text ELSE "")
    /\ p.tags = (IF Has(b, "tags") THEN b.tags ELSE <<>>)
    /\ p.deadline = b.deadline

\* C3: after a successful create, the list of the same user contains
\* exactly one note that has the submitted title, text, tags and deadline and
\* an id no note had before the create, and it is the note the create
\* answered with; a GET /notes answers with the list of the user over the
\* store as the last request left it.
C3_Step ==
    /\ (req'.op = "createNote" /\ resp'.status = 200) =>
          \A b \in Bodies :
              CreateNote(req'.auth, b) =>
                  LET oldIds  == {kv[k].props.id : k \in NoteKeys(kv)} \cup
                                     {k[4] : k \in NoteKeys(kv)}
                      listed  == ListNotes(kv', Sessions[req'.auth[2]])
                      matches == {v \in DOMAIN listed :
                                     /\ Submitted(v.props, b)
                                     /\ v.props.id \notin oldIds}
                  IN  /\ Cardinality(matches) = 1
                      /\ \A v \in matches : listed[v] = 1 /\ v = resp'.body.note
    /\ (req'.op = "getNotes" /\ ~Unresolved(req'.auth)) =>
          /\ kv' = kv
          /\ resp'.status = 200
          /\ resp'.body.notes = ListNotes(kv, Sessions[req'.auth[2]])

C3_CreateThenList == [][C3_Step]_vars

\* a create succeeded for a user who already had a note with the same
\* title, text, tags and deadline
C3_Witness ==
    /\ req.op = "createNote"
    /\ resp.status = 200
    /\ \E v \in DOMAIN ListNotes(kv, Sessions[req.auth[2]]) :
          /\ v # resp.body.note
          /\ \A f \in {"title", "text", "tags", "deadline"} :
                Field(v.props, f) = Field(resp.body.note.props, f)

\* C4: a create by an authenticated user whose title is absent or empty, or
\* whose deadline is absent or empty, answers 400, allocates no id and
\* leaves the store unchanged.
C4_Step ==
    (req'.op = "createNote" /\ ~Unresolved(req'.auth)) =>
        \A b \in Bodies :
            ( /\ CreateNote(req'.auth, b)
              /\ \/ ~Has(b, "title")
                 \/ b.title = ""
                 \/ ~Has(b, "deadline")
                 \/ b.deadline = JStr("") )
            => /\ resp'.status = 400
               /\ issued' = issued
               /\ kv' = kv
               /\ calls'.kv = <<>>

C4_CreateValidation == [][C4_Step]_vars

\* a create was refused for its deadline while notes were stored
C4_Witness ==
    /\ req.op = "createNote"
    /\ resp.status = 400
    /\ resp.body.error = "Deadline is required"
    /\ NoteKeys(kv) # {}

\* C5: an update by an authenticated user of an id under which that user has
\* no note answers 404 and leaves the store unchanged.
C5_Step ==
    ( /\ req'.op = "updateNote"
      /\ ~Unresolved(req'.auth)
      /\ <<"user", Sessions[req'.auth[2]], "note", req'.id>> \notin DOMAIN kv )
    => resp'.status = 404 /\ kv' = kv

C5_UpdateMissing == [][C5_Step]_vars

\* an authenticated update was answered 404 although the id had been issued
C5_Witness ==
    /\ req.op = "updateNote"
    /\ ~Unresolved(req.auth)
    /\ req.id \in issued
    /\ resp.status = 404

\* C6: every note that is stored before and after a step has the same id,
\* userId and createdAt after it as before it, whatever the body of an
\* update supplies; a successful update keeps the note stored.
C6_Step ==
    /\ kv' # kv =>
          \A k \in NoteKeys(kv) \cap NoteKeys(kv') :
              /\ kv'[k].type = "object"
              /\ \A f \in {"id", "userId", "createdAt"} :
                    Field(kv'[k].props, f) = Field(kv[k].props, f)
    /\ (req'.op = "updateNote" /\ resp'.status = 200) =>
          /\ <<"user", Sessions[req'.auth[2]], "note", req'.id>> \in NoteKeys(kv)
          /\ NoteKeys(kv') = NoteKeys(kv)
          /\ resp'.body.note = kv'[<<"user", Sessions[req'.auth[2]], "note", req'.id>>]

C6_UpdatePreservesIdentity == [][C6_Step]_vars

\* u1 updated note n2 with the body that supplies id n1, userId u2 and
\* createdAt t9
C6_Witness ==
    /\ req.op = "updateNote"
    /\ req.id = "n2"
    /\ req.auth = <<"Bearer", "tok1">>
    /\ resp.status = 200
    /\ Field(resp.body.note.props, "title") = Field([title |-> "B"], "title")
    /\ resp.body.note.props.deadline = JStr("d2")

\* C7: after a successful update, each of title and text that the body
\* supplies has the supplied value, and each that the body does not supply
\* has the value it had before the update.
C7_Step ==
    (req'.op = "updateNote" /\ resp'.status = 200) =>
        \A b \in UpdateBodies :
            UpdateNote(req'.auth, req'.id, b) =>
                LET key == <<"user", Sessions[req'.auth[2]], "note", req'.id>>
                IN  \A f \in {"title", "text"} :
                        Field(kv'[key].props, f) =
                            IF Has(b, f) THEN Field(b, f) ELSE Field(kv[key].props, f)

C7_UpdateMerges == [][C7_Step]_vars

\* an entry the list of GET /notes keeps
WellFormed(v) ==
    /\ v.type = "object"
    /\ Field(v.props, "id") \notin {JUndefined, Field([id |-> ""], "id")}
    /\ Field(v.props, "title") \notin {JUndefined, Field([title |-> ""], "title")}

\* the well-formed entries of the namespace of u, with their multiplicity
WellFormedEntries(store, u) ==
    LET keys == {k \in DOMAIN store :
                    /\ Len(k) >= 3
                    /\ k[1] = "user" /\ k[2] = u /\ k[3] = "note"
                    /\ WellFormed(store[k])}
    IN  [v \in {store[k] : k \in keys} |->
            Cardinality({k \in keys : store[k] = v})]

\* C8: a successful delete removes the key of the note, and a delete of an
\* id whose key the store does not hold (so the delete that directly follows
\* a successful one) answers 404 and leaves the store unchanged; a successful
\* delete removes the note from the list of the user and leaves every other
\* entry of the store, and so every other listed note, unchanged.
C8_Step ==
    /\ ( /\ req'.op = "deleteNote" /\ ~Unresolved(req'.auth)
         /\ <<"user", Sessions[req'.auth[2]], "note", req'.id>> \notin DOMAIN kv )
        => resp'.status = 404 /\ kv' = kv
    /\ (req'.op = "deleteNote" /\ resp'.status = 200) =>
          LET u   == Sessions[req'.auth[2]]
              key == <<"user", u, "note", req'.id>>
          IN  /\ key \in DOMAIN kv
              /\ DOMAIN kv' = DOMAIN kv \ {key}
              /\ \A k \in DOMAIN kv' : kv'[k] = kv[k]
              /\ \A v \in DOMAIN ListNotes(kv', u) : v.props.id # req'.id
              /\ ListNotes(kv', u) =
                     ListNotes(kv, u) (-)
                        (IF WellFormed(kv[key]) THEN SetToBag({kv[key]}) ELSE EmptyBag)

C8_DeleteNotRepeatable == [][C8_Step]_vars

\* a delete of an id that was issued and is no longer stored was answered
\* 404 while the user has another note listed
C8_Witness ==
    /\ req.op = "deleteNote"
    /\ ~Unresolved(req.auth)
    /\ resp.status = 404
    /\ req.id \in issued
    /\ \A k \in NoteKeys(kv) : k[4] # req.id
    /\ DOMAIN ListNotes(kv, Sessions[req.auth[2]]) # {}

\* C9: GET /notes of an authenticated user answers 200 with exactly the
\* entries of the user's namespace that are objects with a non-empty id and
\* a non-empty title; every other entry is left out.
C9_ListDropsMalformed ==
    (req.op = "getNotes" /\ ~Unresolved(req.auth)) =>
        /\ resp.status = 200
        /\ Has(resp.body, "notes")
        /\ resp.body.notes = WellFormedEntries(kv, Sessions[req.auth[2]])

\* u1 listed a namespace that holds a null entry, a string entry, an object
\* without id, an object with an empty id, a note without title, a note with
\* an empty title and a well-formed note
C9_Witness ==
    /\ req.op = "getNotes"
    /\ req.auth = <<"Bearer", "tok1">>
    /\ resp.status = 200
    /\ DOMAIN resp.body.notes # {}
    /\ LET entries == {kv[k] : k \in {j \in DOMAIN kv :
                                         StartsWith(j, <<"user", "u1", "note">>)}}
       IN  /\ JNull \in entries
           /\ JStr("legacy") \in entries
           /\ \E v \in entries : v.type = "object" /\ ~Has(v.props, "id")
           /\ \E v \in entries :
                 v.type = "object" /\ Field(v.props, "id") = Field([id |-> ""], "id")
           /\ \E v \in entries :
                 /\ v.type = "object" /\ Has(v.props, "userId")
                 /\ ~Has(v.props, "title")
           /\ \E v \in entries :
                 /\ v.type = "object"
                 /\ Field(v.props, "title") = Field([title |-> ""], "title")

\* C10: every note stored at key user:U:note:N has id N and userId U and an
\* id that randomUUID issued, no two stored notes share an id, and a create
\* stores its note under the namespace of the authenticated user and an id
\* that was not issued before, whatever the body supplies.
C10_Inv ==
    /\ \A k \in NoteKeys(kv) :
          /\ kv[k].type = "object"
          /\ Field(kv[k].props, "id") = Field([id |-> k[4]], "id")
          /\ Field(kv[k].props, "userId") = Field([userId |-> k[2]], "userId")
          /\ k[4] \in issued
    /\ \A k1, k2 \in NoteKeys(kv) :
          k1 # k2 => Field(kv[k1].props, "id") # Field(kv[k2].props, "id")

C10_Step ==
    /\ <<kv, issued>>' # <<kv, issued>> => C10_Inv'
    /\ (req'.op = "createNote" /\ resp'.status = 200) =>
          \E n \in NoteIds \ issued :
              /\ issued' = issued \cup {n}
              /\ DOMAIN kv' = DOMAIN kv \cup {<<"user", Sessions[req'.auth[2]], "note", n>>}
              /\ <<"user", Sessions[req'.auth[2]], "note", n>> \notin DOMAIN kv
              /\ \A k \in DOMAIN kv : kv'[k] = kv[k]
    /\ (req'.op = "updateNote") => DOMAIN kv' = DOMAIN kv /\ issued' = issued

C10_ServerAssignedIds == [][C10_Step]_vars

\* u1 holds note n2 written from the body that supplies id n1 and userId u2,
\* while u2 holds note n1
C10_Witness ==
    /\ <<"user", "u2", "note", "n1">> \in DOMAIN kv
    /\ <<"user", "u1", "note", "n2">> \in DOMAIN kv
    /\ Field(kv[<<"user", "u1", "note", "n2">>].props, "title")
          = Field([title |-> "B"], "title")
    /\ kv[<<"user", "u1", "note", "n2">>].props.deadline = JStr("d2")

\* C11: a change-password by an authenticated user whose newPassword is absent
\* or shorter than 6 characters answers 400 and makes no updateUserById call;
\* a newPassword of 6 characters or more is handed to updateUserById; for
\* every newPassword the request makes no store call and leaves the store
\* unchanged.
C11_Step ==
    (req'.op = "updatePassword" /\ ~Unresolved(req'.auth)) =>
        /\ kv' = kv
        /\ calls'.kv = <<>>
        /\ \A b \in PasswordBodies :
              UpdatePassword(req'.auth, b) =>
                  IF ~Has(b, "newPassword") \/ Len(b.newPassword) < 6
                  THEN /\ resp'.status = 400
                       /\ calls'.auth = <<GetUserCall(req'.auth[2])>>
                  ELSE /\ resp'.status \in {200, 400}
                       /\ calls'.auth =
                              <<GetUserCall(req'.auth[2]),
                                UpdateUserCall(Sessions[req'.auth[2]], b.newPassword)>>

C11_ChangePasswordValidation == [][C11_Step]_vars

\* a change-password whose password is too short was answered 400 while
\* notes were stored
C11_Witness ==
    /\ req.op = "updatePassword"
    /\ ~Unresolved(req.auth)
    /\ resp.status = 400
    /\ resp.body.error = "Password must be at least 6 characters"
    /\ Len(calls.auth) = 1
    /\ NoteKeys(kv) # {}

\* C12: in register mode, a submit of the form with a password shorter than
\* 6 characters sends no signup and no sign-in request (no call is awaited
\* after it), shows an error, stays in register mode and ends with
\* loading = false.
C12_Step ==
    ( /\ LoginRegisterHandleSubmit
      /\ ~loginRegister.isLogin
      /\ Len(loginRegister.password) < 6 )
    => /\ pending' = pending
       /\ loginRegister'.error # ""
       /\ ~loginRegister'.isLogin
       /\ ~loginRegister'.loading

C12_RegisterShortPassword == [][C12_Step]_vars

\* the register form was submitted with username, email and a confirmed
\* password of 5 characters, and the length check refused it
C12_Witness ==
    /\ LoginRegisterShown
    /\ ~loginRegister.isLogin
    /\ Trim(loginRegister.username) # <<>>
    /\ Trim(loginRegister.email) # <<>>
    /\ Len(loginRegister.password) = 5
    /\ loginRegister.confirmPassword = loginRegister.password
    /\ loginRegister.error = "Password must be at least 6 characters"
    /\ ~loginRegister.loading
    /\ pending = EmptyBag

\* the identity of u exists and the store holds no profile of u
Orphan(ids, store, u) == u \in Range(ids) /\ ProfileKey(u) \notin DOMAIN store

\* C13: a signup that created the identity and whose profile write failed
\* answers 500 and leaves the identity without a profile; an identity without
\* a profile stays so in every later step (no request writes its profile or
\* removes it), and every GET /profile with a token of that user answers 404
\* (the store read itself does not throw).
C13_Step ==
    /\ \A u \in Users : Orphan(identities, kv, u) => Orphan(identities', kv', u)
    /\ (req'.op = "signup" /\ identities' # identities /\ kv' = kv) =>
          /\ resp'.status = 500
          /\ \E u \in Users : ~Orphan(identities, kv, u) /\ Orphan(identities', kv', u)
    /\ ( /\ req'.op = "getProfile"
         /\ Len(req'.auth) = 2
         /\ req'.auth[2] \in DOMAIN Sessions
         /\ Orphan(identities, kv, Sessions[req'.auth[2]]) )
        => resp'.status = 404 /\ resp'.body.error = "Profile not found"

C13_SignupOrphan == [][C13_Step]_vars

\* u2 signed up, the profile write failed, u2 created a note, and a later
\* GET /profile with the token of u2 was answered 404
C13_Witness ==
    /\ req.op = "getProfile"
    /\ req.auth = <<"Bearer", "tok2">>
    /\ resp.status = 404
    /\ Orphan(identities, kv, "u2")
    /\ \E k \in NoteKeys(kv) : k[2] = "u2"

\* the request in slot s has answered 200 to operation op on note n of user u
Succeeded(s, op, u, n) ==
    /\ inflight[s].pc = "done"
    /\ inflight[s].op = op
    /\ inflight[s].resp.status = 200
    /\ HeaderUser(inflight[s].auth) = u
    /\ inflight[s].id = n

\* C14: when an update and a delete of the same note of one user have both
\* answered 200, each had read the note from the store, the update answered
\* with the updated note, and the store holds under the key of the note
\* either nothing (the update is discarded, no error is reported) or the
\* note the update answered with.
C14_UpdateDeleteRace ==
    \A a, b \in Slots, u \in Users, n \in NoteIds :
        (Succeeded(a, "updateNote", u, n) /\ Succeeded(b, "deleteNote", u, n)) =>
            /\ inflight[a].existingNote.type = "object"
            /\ inflight[b].existingNote.type = "object"
            /\ Has(inflight[a].resp.body, "note")
            /\ Field(inflight[a].resp.body.note.props, "id") = Field([id |-> n], "id")
            /\ Field(inflight[a].resp.body.note.props, "title") =
                  Field(inflight[a].body, "title")
            /\ \/ <<"user", u, "note", n>> \notin DOMAIN kv
               \/ kv[<<"user", u, "note", n>>] = inflight[a].resp.body.note

\* the interleaving of the claim: the update and the delete of note n1 both
\* read the note as it was created, the update wrote its new title before
\* the delete removed the key, both answered 200 and the store holds no n1
C14_Witness ==
    \E a, b \in Slots :
        /\ Succeeded(a, "updateNote", "u1", "n1")
        /\ Succeeded(b, "deleteNote", "u1", "n1")
        /\ inflight[a].existingNote = StoredNote
        /\ inflight[b].existingNote = StoredNote
        /\ inflight[a].resp.body.note # StoredNote
        /\ <<"user", "u1", "note", "n1">> \notin DOMAIN kv

\* C15: while a delete of note n of user u has answered 200, the store holds
\* no note under the key of n, whatever requests run concurrently.
C15_DeletedStaysDeleted ==
    \A b \in Slots, u \in Users, n \in NoteIds :
        Succeeded(b, "deleteNote", u, n) => <<"user", u, "note", n>> \notin DOMAIN kv

\* C16: an update by the owner of a stored note whose body supplies no
\* deadline is not rejected: it answers 200 and stores and returns the note
\* with deadline null, whatever deadline the note had.
C16_Step ==
    ( /\ req'.op = "updateNote"
      /\ ~Unresolved(req'.auth)
      /\ <<"user", Sessions[req'.auth[2]], "note", req'.id>> \in DOMAIN kv )
    => \A b \in UpdateBodies :
          (UpdateNote(req'.auth, req'.id, b) /\ ~Has(b, "deadline")) =>
              LET key == <<"user", Sessions[req'.auth[2]], "note", req'.id>>
              IN  /\ resp'.status = 200
                  /\ key \in DOMAIN kv'
                  /\ Field(kv'[key].props, "deadline") = Field([deadline |-> JNull], "deadline")
                  /\ resp'.body.note = kv'[key]

C16_UpdateNullsDeadline == [][C16_Step]_vars

\* an update answered 200 with a note that has its createdAt and the
\* deadline null, and the store holds that note
C16_Witness ==
    /\ req.op = "updateNote"
    /\ resp.status = 200
    /\ Has(resp.body.note.props, "createdAt")
    /\ resp.body.note.props.deadline = JNull
    /\ kv[<<"user", Sessions[req.auth[2]], "note", req.id>>] = resp.body.note

NoDuplicates(s) == \A i, j \in 1..Len(s) : s[i] = s[j] => i = j

\* the tags a request body supplies
SuppliedTags(b) == IF Has(b, "tags") THEN b.tags ELSE <<>>

\* C17: the note a create or an update stores has tags without a duplicate
\* string, in the order in which the body supplied them; in the editor,
\* adding a tag that (trimmed and lower-cased) is already in the list leaves
\* the list unchanged.
C17_Step ==
    /\ (req'.op = "createNote" /\ resp'.status = 200) =>
          \A b \in Bodies :
              CreateNote(req'.auth, b) =>
                  /\ resp'.body.note.props.tags = SuppliedTags(b)
                  /\ NoDuplicates(resp'.body.note.props.tags)
    /\ (req'.op = "updateNote" /\ resp'.status = 200) =>
          \A b \in UpdateBodies :
              UpdateNote(req'.auth, req'.id, b) =>
                  LET key == <<"user", Sessions[req'.auth[2]], "note", req'.id>>
                  IN  /\ kv'[key].props.tags = SuppliedTags(b)
                      /\ NoDuplicates(kv'[key].props.tags)
    /\ ( /\ HandleAddTag
         /\ \E i \in 1..Len(noteEditor.tags) :
               noteEditor.tags[i] = ToLowerCase(Trim(noteEditor.tagInput)) )
       => noteEditor'.tags = noteEditor.tags

C17_TagsAreSetInOrder == [][C17_Step]_vars

\* the number of create, update and delete requests of the editor among the
\* awaited calls q
EditorRequests(q) ==
    BagCardinality([c \in {x \in DOMAIN q : x.of = "NoteEditor"} |-> q[c]])

\* C18: at most one request of the editor is in flight; while one is, loading
\* is true in the editor that sent it, the submit, delete and cancel buttons
\* do nothing and no step sends a further request; the step in which a
\* request fails sends none either.
C18_Step ==
    /\ EditorRequests(pending') <= 1
    /\ \A c \in Calls :
          (c.of = "NoteEditor" /\ c.live) =>
              /\ noteEditor.loading
              /\ ~NoteEditorHandleSubmit
              /\ ~HandleDelete(TRUE)
              /\ ~OnCancel
    /\ \A c \in Calls :
          SaveReturns(c, FALSE) => EditorRequests(pending') = 0

C18_OneRequestInFlight == [][C18_Step]_vars

\* a request of the editor failed and nothing is awaited: it was not sent
\* again
C18_Witness ==
    /\ NoteEditorShown
    /\ noteEditor.error = "request failed"
    /\ ~noteEditor.loading
    /\ pending = EmptyBag

\* the fields of the form the user fills in
FormFields(ed) == <<ed.title, ed.text, ed.tags, ed.deadline>>

\* C19: when a request of the editor that is shown fails, or a submit is
\* refused for a blank title or an empty deadline, the editor has an error
\* message, its title, text, tags and deadline are those before the step,
\* loading is false and App still shows the editor with the same note; the
\* refused submit sends no request.
C19_Step ==
    /\ \A c \in Calls :
          (SaveReturns(c, FALSE) /\ c.live) =>
              /\ noteEditor'.error # ""
              /\ FormFields(noteEditor') = FormFields(noteEditor)
              /\ ~noteEditor'.loading
              /\ app' = app
              /\ Shown(app') = "NoteEditor"
    /\ ( /\ NoteEditorHandleSubmit
         /\ (Trim(noteEditor.title) = <<>> \/ noteEditor.deadline = "") )
       => /\ noteEditor'.error # ""
          /\ FormFields(noteEditor') = FormFields(noteEditor)
          /\ ~noteEditor'.loading
          /\ app' = app
          /\ Shown(app') = "NoteEditor"
          /\ pending' = pending

C19_EditorKeepsForm == [][C19_Step]_vars

\* the update of note n1 failed after the user had changed its title,
\* deadline and tags, and the form still holds what the user entered
C19_Witness ==
    /\ NoteEditorShown
    /\ app.editingNote # JNull
    /\ noteEditor.error = "request failed"
    /\ noteEditor.title = <<"B">>
    /\ noteEditor.deadline = "d2"
    /\ Len(noteEditor.tags) = 2
    /\ ~noteEditor.loading

\* App with the state a and the awaited calls q no longer goes on with the
\* access token old: the user is logged out, or the token was replaced, or the
\* logout of handleLogout is under way
Reestablished(a, q, old) ==
    \/ a.user = JNull
    \/ a.user # JNull /\ a.user.accessToken # old
    \/ \E x \in DOMAIN q : x.call \in {"logoutTimer", "signOut"}

\* C20: once the server has confirmed the password change and refreshSession
\* has returned, App holds another access token than the one the change was
\* requested with, or the user is logged out or about to be (the timer of the
\* logout or its signOut is awaited).
C20_Step ==
    \A c \in Calls :
        ( /\ c.call = "refreshSession"
          /\ \E outcome \in {"throws", "error", "nosession", "session"},
                token \in Tokens \ {c.accessToken} :
                RefreshSessionReturns(c, outcome, token) )
        => Reestablished(app', pending', c.accessToken)

C20_SessionReestablished == [][C20_Step]_vars

\* C21: whenever App's currentScreen is main, noteEditor or accountSettings,
\* its user is not null, whatever awaited calls complete after a logout.
C21_ScreenHasUser ==
    app.currentScreen \in {"main", "noteEditor", "accountSettings"} => app.user # JNull

\* a login is completing: the getProfile of the session check or the getUser
\* of handleLogin is awaited
LoginCompleting(q) == \E c \in DOMAIN q : c.call \in {"getProfile", "getUser"}

\* C22: after handleLogout the user stays null until a login completes:
\* whenever currentScreen is login and no login is completing, user is null,
\* also when a password change that was in flight at the logout calls
\* onTokenRefresh.
C22_LoggedOutStaysNull ==
    (app.currentScreen = "login" /\ ~LoginCompleting(pending)) => app.user = JNull

\* C23: the login form is never left disabled with nothing awaited: whenever
\* LoginRegister is shown with loading = true, a call is awaited whose return
\* enables the form again or shows the main page (with nothing awaited and the
\* form disabled, no step of the client is possible any more).
C23_DisabledFormAwaits ==
    (LoginRegisterShown /\ loginRegister.loading) =>
        \E c \in Calls : c.call \in {"signUp", "signInWithPassword", "getUser"}

\* C24: a create that answers 400, 401 or 500 leaves the store without any
\* note that was not there before the request, also when a store operation
\* of the handler throws.
C24_Step ==
    (req'.op = "createNote" /\ resp'.status \in {400, 401, 500}) =>
        \A k \in NoteKeys(kv') : k \in DOMAIN kv /\ kv'[k] = kv[k]

C24_FailedCreateStoresNothing == [][C24_Step]_vars

\* how often the note is shown by a main page with the state st: in the
\* upcoming slot and in the list 'All Notes'
TimesShown(st, note) ==
    Cardinality({i \in 1..Len(st.filteredAndSortedNotes) :
                    st.filteredAndSortedNotes[i] = note})
        + (IF st.upcomingNote = note THEN 1 ELSE 0)

\* C25: when the fetched notes arrive, the upcoming note is a valid note whose
\* deadline is not before the time of the render and is the earliest of
\* these deadlines (there is none if no note has such a deadline); the
\* upcoming note is never in the list 'All Notes'; with an empty search query
\* every valid note that has tags is shown exactly once, in the upcoming slot
\* or in the list; in sort mode time the deadlines of the list do not
\* decrease.
C25_Step ==
    /\ \A c \in Calls, fetched \in FetchedLists, now \in Nows :
          ( /\ mainPage.loading
            /\ mainPage'.notes = SelectSeq(fetched, IsValidNote)
            /\ FetchNotesReturns(c, TRUE, fetched, now) ) =>
              LET future == {fetched[i] : i \in {k \in 1..Len(fetched) :
                                /\ IsValidNote(fetched[k])
                                /\ IsFuture(fetched[k], now)}}
                  upcoming == mainPage'.upcomingNote
              IN  /\ future = {} => upcoming = JUndefined
                  /\ future # {} =>
                        /\ upcoming \in future
                        /\ \A note \in future :
                              GetTime(upcoming.deadline).time <= GetTime(note.deadline).time
    /\ LET st == mainPage'
           list == st.filteredAndSortedNotes
       IN  /\ st.upcomingNote # JUndefined =>
                 \A i \in 1..Len(list) : list[i].id # st.upcomingNote.id
           /\ st.searchQuery = <<>> =>
                 \A i \in 1..Len(st.notes) :
                    Has(st.notes[i], "tags") => TimesShown(st, st.notes[i]) = 1
           /\ st.sortBy = "time" =>
                 \A i, j \in 1..Len(list) :
                    ( /\ i < j
                      /\ ~GetTime(list[i].deadline).nan
                      /\ ~GetTime(list[j].deadline).nan )
                    => GetTime(list[i].deadline).time <= GetTime(list[j].deadline).time

C25_MainPageLists == [][C25_Step]_vars

====
